---- MODULE Spec2Model ----
(***************************************************************************)
(* Layout & shape synthesis pipeline of SlideShot (HTML -> PPTX).          *)
(*                                                                         *)
(* Lengths.  The code holds positions as floating-point inches obtained    *)
(* as px / 96.  The model holds every position as the integer numerator    *)
(* of that fraction (CSS px), and slide sizes as thousandths of an inch;   *)
(* comparisons between the two are done by cross-multiplication, so they   *)
(* are exact.  After auto-scaling by n/d the positions are numerators      *)
(* over 96*d.                                                              *)
(***************************************************************************)
EXTENDS Integers, Sequences, FiniteSets, TLC

VARIABLES
  fnIn,      \* argument record of the function under check
  fnOut,     \* its result (and the arguments it mutated in place)
  fnPc,      \* "input" before the call, the function's name after it
  driver,    \* "route": POST /api/convert handlers; "direct": convert() calls
  inst,      \* the ConversionPipeline instance each call runs on
  pc,        \* where each call stands (the await it is suspended at)
  req,       \* the request of each call
  run,       \* the locals of each convert() call
  outcome,   \* how each convert() call ended
  resp,      \* the HTTP status each handler sent
  cleanupRan,\* whether the handler's finally block has run cleanup()
  logArr,    \* the log arrays, named by the call whose convert() created them
  curLogs,   \* per instance, the array this.logs refers to
  appended,  \* per call, the entries its addLog calls pushed, in order
  collector, \* per instance, this.browserCollector and its browser field
  launched,  \* per instance, browsers launched and not yet closed
  pageOpen   \* per call, whether the page it opened is still open

fnVars == <<fnIn, fnOut, fnPc>>

pipeVars == <<driver, inst, pc, req, run, outcome, resp, cleanupRan, logArr,
              curLogs, appended, collector, launched, pageOpen>>

vars == <<fnIn, fnOut, fnPc, driver, inst, pc, req, run, outcome, resp,
          cleanupRan, logArr, curLogs, appended, collector, launched, pageOpen>>

(***************************************************************************)
(* Bounds of the model.                                                    *)
(***************************************************************************)
MaxElems == 3
MaxRows == 3
MaxCells == 3
MaxNodes == 3

(***************************************************************************)
(* Program constants.                                                      *)
(***************************************************************************)
PxPerInch == 96
DefaultSlideWidth == 13333      \* 13.333 in, in thousandths of an inch
DefaultSlideHeight == 7500      \* 7.5 in

(***************************************************************************)
(* Arithmetic helpers.                                                     *)
(***************************************************************************)
Min(a, b) == IF a < b THEN a ELSE b

Max(a, b) == IF a > b THEN a ELSE b

Abs(a) == IF a < 0 THEN -a ELSE a

RECURSIVE GCD(_, _)
GCD(a, b) == IF b = 0 THEN a ELSE GCD(b, a % b)

\* A rational is a pair <<n, d>> with d > 0, kept in lowest terms.
Rat(n, d) == LET g == GCD(Abs(n), d) IN <<n \div g, d \div g>>

\* a/b < c/d for a, c >= 0 and b, d > 0, by continued-fraction descent
\* (no product is formed, so no intermediate exceeds its arguments)
RECURSIVE FracLess(_, _, _, _)
FracLess(a, b, c, d) ==
  IF a \div b # c \div d THEN a \div b < c \div d
  ELSE IF c % d = 0 THEN FALSE
  ELSE IF a % b = 0 THEN TRUE
  ELSE FracLess(d, c % d, b, a % b)

RatLess(p, q) == FracLess(p[1], p[2], q[1], q[2])

RatMin(p, q) == IF RatLess(q, p) THEN q ELSE p

RatMax(p, q) == IF RatLess(p, q) THEN q ELSE p

\* px / 96 > slide * num / den, slide in thousandths of an inch
ExceedsFactor(px, slide, num, den) ==
  1000 * px * den > PxPerInch * slide * num

(***************************************************************************)
(* Element records.                                                        *)
(***************************************************************************)
Sides == {"top", "right", "bottom", "left"}

NoBorder == [present |-> FALSE, width |-> 0, color |-> "", style |-> ""]

NoRadius == [num |-> 0, unit |-> ""]

NoStyles ==
  [borderRadius |-> NoRadius, backgroundColor |-> "", fontSize |-> 0,
   fontWeight |-> "", border |-> [s \in Sides |-> NoBorder]]

Box(x, y, w, h) == [x |-> x, y |-> y, width |-> w, height |-> h]

NoTable == [rows |-> <<>>, numCols |-> 0]

\* a PPTXElement; styles.fontSize = 0 stands for an absent font size
Prim(type, text, pos, fontSize) ==
  [id |-> 0, type |-> type, text |-> text, position |-> pos,
   styles |-> [fontSize |-> fontSize], tableData |-> NoTable,
   children |-> <<>>]

ParsedEl(tag, text, pos, styles) ==
  [id |-> 0, tagName |-> tag, textContent |-> text, position |-> pos,
   styles |-> styles, children |-> <<>>]

(***************************************************************************)
(* Ordered forests over 1..n in document (pre)order: par[j] is the parent  *)
(* of node j, 0 for a top-level node.                                      *)
(***************************************************************************)
RECURSIVE IsAncestorOrSelf(_, _, _)
IsAncestorOrSelf(a, j, par) ==
  \/ a = j
  \/ j # 0 /\ IsAncestorOrSelf(a, par[j], par)

PreorderParents(n) ==
  {par \in [1..n -> 0..(n - 1)] :
     /\ par[1] = 0
     /\ \A j \in 2..n : IsAncestorOrSelf(par[j], j - 1, par)}

RECURSIVE BuildNode(_, _, _, _)
RECURSIVE BuildKids(_, _, _, _, _)
BuildNode(i, n, par, node) ==
  [node[i] EXCEPT !.id = i, !.children = BuildKids(i, i + 1, n, par, node)]

BuildKids(i, j, n, par, node) ==
  IF j > n THEN <<>>
  ELSE (IF par[j] = i THEN <<BuildNode(j, n, par, node)>> ELSE <<>>)
         \o BuildKids(i, j + 1, n, par, node)

\* every forest of 1..MaxElems nodes whose nodes are drawn from Kinds
ForestsOf(Kinds) ==
  UNION {{BuildKids(0, 1, n, par, node) :
            par \in PreorderParents(n), node \in [1..n -> Kinds]} :
         n \in 1..MaxElems}

RECURSIVE Flatten(_)
RECURSIVE FlattenNode(_)
FlattenNode(el) == <<el>> \o Flatten(el.children)

\* the nodes of a forest in document order
Flatten(els) ==
  IF els = <<>> THEN <<>> ELSE FlattenNode(Head(els)) \o Flatten(Tail(els))

SeqRange(s) == {s[i] : i \in 1..Len(s)}

(***************************************************************************)
(* ConversionPipeline.shouldFilterElement / filterDecorativeElements       *)
(***************************************************************************)
\* parseFloat(el.styles.borderRadius || "0px")
RadiusValue(el) == el.styles.borderRadius.num

\* bgColor.includes("rgb(245") || ... || bgColor.includes("#f0f0f0")
GrayishColors ==
  {"rgb(245, 245, 245)", "rgb(240, 240, 240)", "rgb(250, 250, 250)",
   "#f5f5f5", "#f0f0f0"}

shouldFilterElement(el, slideWidth, slideHeight) ==
  LET w == el.position.width
      h == el.position.height
      exceedsWidth  == ExceedsFactor(w, slideWidth, 12, 10)
      exceedsHeight == ExceedsFactor(h, slideHeight, 12, 10)
      isHuge == \/ ExceedsFactor(w, slideWidth, 2, 1)
                \/ ExceedsFactor(h, slideHeight, 2, 1)
      isGrayish == el.styles.backgroundColor \in GrayishColors
  IN  IF el.tagName \in {"body", "html"}
        THEN [filter |-> TRUE, reason |-> "page wrapper"]
      ELSE IF exceedsWidth /\ ExceedsFactor(w, slideWidth, 15, 10)
        THEN [filter |-> TRUE, reason |-> "significantly exceeds"]
      ELSE IF exceedsHeight /\ ExceedsFactor(h, slideHeight, 15, 10)
        THEN [filter |-> TRUE, reason |-> "significantly exceeds"]
      ELSE IF isHuge
        THEN [filter |-> TRUE, reason |-> "HUGE"]
      ELSE IF /\ RadiusValue(el) > 100
              /\ isGrayish
              /\ \/ ExceedsFactor(w, slideWidth, 8, 10)
                 \/ ExceedsFactor(h, slideHeight, 8, 10)
        THEN [filter |-> TRUE, reason |-> "decorative wrapper"]
      ELSE IF RadiusValue(el) > 500
        THEN [filter |-> TRUE, reason |-> "enormous border-radius"]
      ELSE [filter |-> FALSE, reason |-> ""]

RECURSIVE processElement(_)
RECURSIVE processAll(_)
\* processElement of filterDecorativeElements: children first, then the node
processElement(el) ==
  LET processedChildren == processAll(el.children)
  IN  IF shouldFilterElement(el, DefaultSlideWidth, DefaultSlideHeight).filter
        THEN processedChildren
        ELSE <<[el EXCEPT !.children = processedChildren]>>

\* elements.flatMap(el => processElement(el))
processAll(els) ==
  IF els = <<>> THEN <<>>
  ELSE processElement(Head(els)) \o processAll(Tail(els))

filterDecorativeElements(elements) == processAll(elements)

(***************************************************************************)
(* Specification SpecFilter: filterDecorativeElements applied to the       *)
(* element forests a geometry source can deliver.                          *)
(***************************************************************************)
FilterKinds ==
  { ParsedEl("p", "hi", Box(0, 0, 480, 24), NoStyles),
    ParsedEl("div", "t", Box(0, 0, 384, 192), NoStyles),
    ParsedEl("div", "", Box(0, 0, 2000, 2000), NoStyles),
    ParsedEl("p", "wide", Box(0, 0, 2000, 24), NoStyles),
    ParsedEl("body", "", Box(0, 0, 1280, 720), NoStyles),
    ParsedEl("div", "", Box(0, 0, 1152, 192),
             [NoStyles EXCEPT !.borderRadius = [num |-> 150, unit |-> "px"],
                              !.backgroundColor = "rgb(245, 245, 245)"]) }

FnIdle == fnIn = <<>> /\ fnOut = <<>> /\ fnPc = "idle"

Calls == {"A", "B"}

Instances == {"p1", "p2"}

NoRun ==
  [source |-> "none", parsedElements |-> <<>>, classifiedElements |-> <<>>,
   den |-> 1, scale |-> <<1, 1>>, stages |-> <<>>, launches |-> 0,
   collects |-> 0, geometryFailed |-> FALSE, pending |-> <<>>]

NoOutcome == [kind |-> "none", error |-> "", buffer |-> FALSE, logs |-> "ctor"]

NoRequest ==
  [valid |-> FALSE, html |-> "", useBrowserLayout |-> FALSE,
   options |-> [slideWidth |-> 0, slideHeight |-> 0]]

\* no conversion is under way (the state of the function specifications)
PipeIdle ==
  /\ driver = "none"
  /\ inst = [c \in Calls |-> "p1"]
  /\ pc = [c \in Calls |-> "idle"]
  /\ req = [c \in Calls |-> NoRequest]
  /\ run = [c \in Calls |-> NoRun]
  /\ outcome = [c \in Calls |-> NoOutcome]
  /\ resp = [c \in Calls |-> "none"]
  /\ cleanupRan = [c \in Calls |-> FALSE]
  /\ logArr = [a \in Calls \cup {"ctor"} |-> <<>>]
  /\ curLogs = [i \in Instances |-> "ctor"]
  /\ appended = [c \in Calls |-> <<>>]
  /\ collector = [i \in Instances |-> [exists |-> FALSE, browser |-> FALSE]]
  /\ launched = [i \in Instances |-> 0]
  /\ pageOpen = [c \in Calls |-> FALSE]

InitFilter ==
  /\ PipeIdle
  /\ fnIn \in {[elements |-> f] : f \in ForestsOf(FilterKinds)}
  /\ fnOut = <<>>
  /\ fnPc = "input"

FilterDecorative ==
  /\ fnPc = "input"
  /\ "elements" \in DOMAIN fnIn
  /\ fnOut' = filterDecorativeElements(fnIn.elements)
  /\ fnPc' = "filterDecorativeElements"
  /\ UNCHANGED <<fnIn, pipeVars>>

NextFilter == FilterDecorative

SpecFilter == InitFilter /\ [][NextFilter]_vars

\* ids of the text-bearing leaves of a forest, in document order
TextLeafIds(els) ==
  LET flat == Flatten(els)
      isTextLeaf(e) == e.children = <<>> /\ e.textContent # ""
  IN  SelectSeq([i \in 1..Len(flat) |->
                   [id |-> flat[i].id, leaf |-> isTextLeaf(flat[i])]],
                LAMBDA r : r.leaf)

\* C4: decorative filtering keeps every text-bearing leaf of its input,
\* exactly once and in document order.
C4_TextLeavesPreserved ==
  fnPc = "filterDecorativeElements"
    => TextLeafIds(fnOut) = TextLeafIds(fnIn.elements)

(***************************************************************************)
(* ConversionPipeline.calculateContentBounds / applyScalingToElements /    *)
(* calculateAndApplyScaling                                                *)
(***************************************************************************)
RECURSIVE traverse(_)
RECURSIVE traverseAll(_)
\* the elements `traverse` visits: a table's children are not descended into
traverse(el) ==
  <<el>> \o (IF el.type # "table" THEN traverseAll(el.children) ELSE <<>>)

traverseAll(els) ==
  IF els = <<>> THEN <<>> ELSE traverse(Head(els)) \o traverseAll(Tail(els))

RECURSIVE SeqMin(_, _)
SeqMin(s, acc) == IF s = <<>> THEN acc ELSE SeqMin(Tail(s), Min(acc, Head(s)))

RECURSIVE SeqMax(_, _)
SeqMax(s, acc) == IF s = <<>> THEN acc ELSE SeqMax(Tail(s), Max(acc, Head(s)))

calculateContentBounds(elements) ==
  IF elements = <<>> THEN [isNull |-> TRUE, minX |-> 0, minY |-> 0,
                           maxX |-> 0, maxY |-> 0]
  ELSE LET v == traverseAll(elements)
           xs == [i \in 1..Len(v) |-> v[i].position.x]
           ys == [i \in 1..Len(v) |-> v[i].position.y]
           rs == [i \in 1..Len(v) |-> v[i].position.x + v[i].position.width]
           bs == [i \in 1..Len(v) |-> v[i].position.y + v[i].position.height]
       IN  [isNull |-> FALSE,
            minX |-> SeqMin(xs, xs[1]), minY |-> SeqMin(ys, ys[1]),
            maxX |-> SeqMax(rs, rs[1]), maxY |-> SeqMax(bs, bs[1])]

\* Math.max(6, Math.round(fontSize * n / d))
ScaledFontSize(fontSize, n, d) == Max(6, (2 * fontSize * n + d) \div (2 * d))

\* scaleElement without the descent into children
scaleElement_TopOnly(el, n, d, originX, originY) ==
  [el EXCEPT
     !.position = [x |-> originX * d + (el.position.x - originX) * n,
                   y |-> originY * d + (el.position.y - originY) * n,
                   width |-> el.position.width * n,
                   height |-> el.position.height * n],
     !.styles.fontSize = IF @ # 0 THEN ScaledFontSize(@, n, d) ELSE @]

RECURSIVE scaleElement(_, _, _, _, _)
\* scaleElement of applyScalingToElements, scale = n/d; the results are
\* numerators over 96*d
scaleElement(el, n, d, originX, originY) ==
  [el EXCEPT
     !.position = [x |-> originX * d + (el.position.x - originX) * n,
                   y |-> originY * d + (el.position.y - originY) * n,
                   width |-> el.position.width * n,
                   height |-> el.position.height * n],
     !.styles.fontSize = IF @ # 0 THEN ScaledFontSize(@, n, d) ELSE @,
     !.children = IF el.type # "table"
                    THEN [i \in 1..Len(@) |->
                            scaleElement(@[i], n, d, originX, originY)]
                    ELSE @]

applyScalingToElements(elements, n, d, originX, originY) ==
  [i \in 1..Len(elements) |-> scaleElement(elements[i], n, d, originX, originY)]

\* options.slideWidth || 13.333
SlideWidthOf(options) ==
  IF options.slideWidth # 0 THEN options.slideWidth ELSE DefaultSlideWidth

SlideHeightOf(options) ==
  IF options.slideHeight # 0 THEN options.slideHeight ELSE DefaultSlideHeight

One == <<1, 1>>

\* const minScale = 0.5
minScale == <<1, 2>>

\* Math.min(scaleX, scaleY) without the 0.5 floor
ClampScale_NoFloor(scale) == scale

\* scale = Math.max(scale, minScale)
ClampScale(scale) == RatMax(scale, minScale)

\* contentSize > 0 ? slide / contentSize : 1, without Math.min(1, ...)
AxisScale_NoCap(slide, content) ==
  IF content > 0 THEN Rat(PxPerInch * slide, 1000 * content) ELSE One

\* contentSize > 0 ? Math.min(1, slide / contentSize) : 1
AxisScale(slide, content) ==
  IF content > 0 THEN RatMin(One, Rat(PxPerInch * slide, 1000 * content))
  ELSE One

\* newWidth > slideWidth || newHeight > slideHeight after scaling
StillExceeds(slideWidth, slideHeight, scale, newBounds) ==
  \/ FracLess(slideWidth, 1000, newBounds.maxX - newBounds.minX,
              PxPerInch * scale[2])
  \/ FracLess(slideHeight, 1000, newBounds.maxY - newBounds.minY,
              PxPerInch * scale[2])

\* the branch `if (scale < 1)`: apply, then verify the new bounds
ApplyScale(elements, slideWidth, slideHeight, bounds, scale, scaled) ==
  IF RatLess(scale, One)
    THEN [scale |-> scale, elements |-> scaled, den |-> scale[2],
          logs |-> IF StillExceeds(slideWidth, slideHeight, scale,
                                   calculateContentBounds(scaled))
                     THEN <<[level |-> "warning",
                             message |-> "still exceeds after scaling"]>>
                     ELSE <<>>]
  ELSE [scale |-> scale, elements |-> elements, den |-> 1, logs |-> <<>>]

\* the scale for the content bounds, and its application
ScaleForBounds(elements, slideWidth, slideHeight, bounds, scale) ==
  ApplyScale(elements, slideWidth, slideHeight, bounds, scale,
             applyScalingToElements(elements, scale[1], scale[2],
                                    bounds.minX, bounds.minY))

ScaleToBounds(elements, slideWidth, slideHeight, bounds) ==
  IF bounds.isNull
    THEN [scale |-> One, elements |-> elements, den |-> 1, logs |-> <<>>]
  ELSE ScaleForBounds(elements, slideWidth, slideHeight, bounds,
         ClampScale(RatMin(AxisScale(slideWidth, bounds.maxX - bounds.minX),
                           AxisScale(slideHeight, bounds.maxY - bounds.minY))))

\* result: the returned scale, the elements as left by the call (numerators
\* over 96*den) and the log entries the call appended
calculateAndApplyScaling(elements, options) ==
  ScaleToBounds(elements, SlideWidthOf(options), SlideHeightOf(options),
                calculateContentBounds(elements))

(***************************************************************************)
(* Specification SpecScale: calculateAndApplyScaling applied to primitive  *)
(* forests and slide sizes.                                                *)
(***************************************************************************)
ScaleKinds ==
  { Prim("rect", "", Box(0, 0, 1920, 960), 0),
    Prim("text", "hi", Box(96, 96, 384, 96), 12),
    [Prim("table", "", Box(192, 768, 576, 288), 0) EXCEPT
       !.tableData = [rows |-> <<[cells |-> <<[text |-> "a", isHeader |-> FALSE,
                                               styles |-> [fontSize |-> 12]]>>]>>,
                      numCols |-> 1]],
    Prim("rect", "", Box(-96, 0, 2880, 192), 0),
    Prim("text", "x", Box(288, 192, 0, 0), 5),
    Prim("rect", "", Box(0, 0, 960, 720), 10) }

\* classifyElement leaves a table primitive without children
WellFormedPrims(els) ==
  \A i \in 1..Len(Flatten(els)) :
    Flatten(els)[i].type = "table" => Flatten(els)[i].children = <<>>

ScaleOptions == [slideWidth : {0, 10000}, slideHeight : {0, 7500}]

InitScale ==
  /\ PipeIdle
  /\ fnIn \in {[elements |-> f, options |-> o] :
                 f \in {g \in ForestsOf(ScaleKinds) : WellFormedPrims(g)},
                 o \in ScaleOptions}
  /\ fnOut = <<>>
  /\ fnPc = "input"

CalculateAndApplyScaling ==
  /\ fnPc = "input"
  /\ "options" \in DOMAIN fnIn
  /\ fnOut' = calculateAndApplyScaling(fnIn.elements, fnIn.options)
  /\ fnPc' = "calculateAndApplyScaling"
  /\ UNCHANGED <<fnIn, pipeVars>>

NextScale == CalculateAndApplyScaling

SpecScale == InitScale /\ [][NextScale]_vars

\* the union envelope of every primitive box of a forest
EnvelopeOf(els) ==
  LET flat == Flatten(els)
      I == 1..Len(flat)
      lefts == {flat[i].position.x : i \in I}
      tops == {flat[i].position.y : i \in I}
      rights == {flat[i].position.x + flat[i].position.width : i \in I}
      bottoms == {flat[i].position.y + flat[i].position.height : i \in I}
      left == CHOOSE m \in lefts : \A v \in lefts : m <= v
      top == CHOOSE m \in tops : \A v \in tops : m <= v
      right == CHOOSE m \in rights : \A v \in rights : m >= v
      bottom == CHOOSE m \in bottoms : \A v \in bottoms : m >= v
  IN  [originX |-> left, originY |-> top,
       width |-> right - left, height |-> bottom - top]

RatEq(p, q) == ~RatLess(p, q) /\ ~RatLess(q, p)

\* max(0.5, min(1, slideWidth/contentWidth, slideHeight/contentHeight)),
\* a quotient by a zero content size being +infinity
ExpectedScale(els, options) ==
  LET env == EnvelopeOf(els)
      cands == {One}
        \cup (IF env.width > 0
                THEN {Rat(PxPerInch * SlideWidthOf(options), 1000 * env.width)}
                ELSE {})
        \cup (IF env.height > 0
                THEN {Rat(PxPerInch * SlideHeightOf(options), 1000 * env.height)}
                ELSE {})
      least == CHOOSE m \in cands : \A c \in cands : ~RatLess(c, m)
  IN  IF RatLess(least, <<1, 2>>) THEN <<1, 2>> ELSE least

ScaleDone == fnPc = "calculateAndApplyScaling"

\* Math.max(6, Math.round(f * s)) for s = scale[1] / scale[2]
FlooredFont(f, scale) ==
  LET rounded == (2 * f * scale[1] + scale[2]) \div (2 * scale[2])
  IN  IF rounded > 6 THEN rounded ELSE 6

\* the font sizes of the cells of a table primitive, row by row
CellFonts(el) ==
  [r \in 1..Len(el.tableData.rows) |->
     [k \in 1..Len(el.tableData.rows[r].cells) |->
        el.tableData.rows[r].cells[k].styles.fontSize]]

\* C26: when a scale s < 1 is applied, every font size f of the primitive
\* tree, in the primitives' styles and in the cell styles of table
\* primitives, becomes max(6, round(f * s)): none is below 6pt afterwards and
\* none is left unscaled
C26_EveryFontScaled ==
  (ScaleDone /\ RatLess(fnOut.scale, One))
    => \A i \in 1..Len(Flatten(fnIn.elements)) :
         LET before == Flatten(fnIn.elements)[i]
             after == Flatten(fnOut.elements)[i]
         IN  /\ before.styles.fontSize # 0
                  => after.styles.fontSize
                       = FlooredFont(before.styles.fontSize, fnOut.scale)
             /\ \A r \in 1..Len(CellFonts(before)) :
                  \A k \in 1..Len(CellFonts(before)[r]) :
                    CellFonts(before)[r][k] # 0
                      => CellFonts(after)[r][k]
                           = FlooredFont(CellFonts(before)[r][k], fnOut.scale)

\* C1: the returned scale is max(0.5, min(1, slideWidth/contentWidth,
\* slideHeight/contentHeight)) over the union envelope of all primitive
\* boxes, hence within [0.5, 1].
C1_ScaleFormula ==
  ScaleDone =>
    /\ RatEq(fnOut.scale, ExpectedScale(fnIn.elements, fnIn.options))
    /\ ~RatLess(fnOut.scale, <<1, 2>>)
    /\ ~RatLess(One, fnOut.scale)

\* Scenario E: a 20in x 10in envelope on the default slide gives 0.667
C1_Witness ==
  /\ ScaleDone
  /\ fnIn.options = [slideWidth |-> 0, slideHeight |-> 0]
  /\ EnvelopeOf(fnIn.elements).width = 20 * PxPerInch
  /\ EnvelopeOf(fnIn.elements).height = 10 * PxPerInch
  /\ fnOut.scale = <<13333, 20000>>

\* the content envelope is no wider and no taller than the slide
FitsSlide(els, options) ==
  /\ 1000 * EnvelopeOf(els).width <= PxPerInch * SlideWidthOf(options)
  /\ 1000 * EnvelopeOf(els).height <= PxPerInch * SlideHeightOf(options)

\* C2: on content that fits the slide, auto-scale returns exactly 1 and
\* leaves every x, y, width, height and font size unchanged.
C2_FitsIsIdentity ==
  (ScaleDone /\ FitsSlide(fnIn.elements, fnIn.options)) =>
    /\ fnOut.scale = One
    /\ fnOut.den = 1
    /\ fnOut.elements = fnIn.elements

C2_Witness ==
  /\ ScaleDone
  /\ FitsSlide(fnIn.elements, fnIn.options)
  /\ EnvelopeOf(fnIn.elements).width > 0
  /\ \E i \in 1..Len(Flatten(fnIn.elements)) :
       Flatten(fnIn.elements)[i].styles.fontSize \in 1..5
  /\ fnOut.elements = fnIn.elements

\* C3: under a scale s = n/d < 1 every non-table primitive at every depth
\* gets x' = originX + (x - originX)*s, y' likewise, width' = width*s,
\* height' = height*s, with (originX, originY) the minimum corner of the
\* pre-scaling envelope, which scaling leaves in place.
C3_ScaledAboutEnvelopeOrigin ==
  (ScaleDone /\ RatLess(fnOut.scale, One)) =>
    LET n == fnOut.scale[1]
        d == fnOut.scale[2]
        env == EnvelopeOf(fnIn.elements)
        before == Flatten(fnIn.elements)
        after == Flatten(fnOut.elements)
    IN  /\ fnOut.den = d
        /\ Len(after) = Len(before)
        /\ \A i \in 1..Len(before) :
             before[i].type # "table" =>
               /\ after[i].id = before[i].id
               /\ after[i].position.x =
                    env.originX * d + (before[i].position.x - env.originX) * n
               /\ after[i].position.y =
                    env.originY * d + (before[i].position.y - env.originY) * n
               /\ after[i].position.width = before[i].position.width * n
               /\ after[i].position.height = before[i].position.height * n
        /\ EnvelopeOf(fnOut.elements).originX = env.originX * d
        /\ EnvelopeOf(fnOut.elements).originY = env.originY * d

\* a scaled run with a nested primitive that lies off the envelope origin
C3_Witness ==
  /\ ScaleDone
  /\ RatLess(fnOut.scale, One)
  /\ RatLess(<<1, 2>>, fnOut.scale)
  /\ \E i \in 1..Len(fnIn.elements) :
       /\ fnIn.elements[i].children # <<>>
       /\ fnIn.elements[i].children[1].type # "table"
       /\ fnIn.elements[i].children[1].position.x
            # EnvelopeOf(fnIn.elements).originX
       /\ fnOut.elements[i].children[1].position.x
            # fnOut.den * fnIn.elements[i].children[1].position.x

(***************************************************************************)
(* The DOM handed to HTMLParser (JSDOM): per element its tag, direct text, *)
(* inline style (el.style) and computed style (getComputedStyle).          *)
(* A dimension is [unit, num]; unit "" is the empty string (unset).        *)
(***************************************************************************)
Unset == [unit |-> "", num |-> 0]

Px(n) == [unit |-> "px", num |-> n]

Pct(n) == [unit |-> "%", num |-> n]

Auto == [unit |-> "auto", num |-> 0]

NoCss ==
  [width |-> Unset, height |-> Unset, maxWidth |-> Unset,
   marginTop |-> Unset, marginBottom |-> Unset,
   marginLeft |-> Unset, marginRight |-> Unset,
   paddingTop |-> Unset, paddingLeft |-> Unset,
   left |-> Unset, right |-> Unset, top |-> Unset, bottom |-> Unset,
   position |-> "", display |-> "",
   backgroundColor |-> "", borderRadius |-> NoRadius, fontSize |-> 0,
   fontWeight |-> ""]

\* an element whose computed style is its inline style plus the display
\* the user-agent sheet gives the tag
Dom(tag, text, css, kids) ==
  [tag |-> tag, text |-> text, inline |-> css,
   computed |-> [css EXCEPT !.display =
                   IF @ # "" THEN @
                   ELSE IF tag \in {"span", "a", "label"} THEN "inline"
                   ELSE "block"],
   children |-> kids]

\* HTMLParser.parseDimension
parseDimension(value) ==
  IF value.unit = "" THEN 0
  ELSE IF value.unit = "px" THEN value.num
  ELSE IF value.unit = "%" THEN (value.num * 1000) \div 100
  ELSE IF value.unit = "auto" THEN 0
  ELSE value.num

\* a || b on numbers
OrElse(a, b) == IF a # 0 THEN a ELSE b

\* HTMLParser.getDefaultWidth
getDefaultWidth(tagName) ==
  CASE tagName = "h1" -> 600 [] tagName = "h2" -> 500 [] tagName = "h3" -> 400
    [] tagName = "h4" -> 350 [] tagName = "h5" -> 300 [] tagName = "h6" -> 250
    [] tagName = "p" -> 500 [] tagName = "span" -> 200 [] tagName = "div" -> 400
    [] tagName = "button" -> 150 [] OTHER -> 400

\* HTMLParser.getDefaultHeight
getDefaultHeight(tagName) ==
  CASE tagName = "h1" -> 60 [] tagName = "h2" -> 50 [] tagName = "h3" -> 40
    [] tagName = "h4" -> 35 [] tagName = "h5" -> 30 [] tagName = "h6" -> 25
    [] tagName = "p" -> 30 [] tagName = "span" -> 20 [] tagName = "div" -> 200
    [] tagName = "button" -> 40 [] tagName = "hr" -> 2 [] OTHER -> 100

\* the root layout context pushed by parse()
RootContext ==
  [originX |-> 0, originY |-> 0, cumulativeY |-> 0, cumulativeX |-> 0,
   isPositioned |-> TRUE]

getCurrentContext(layoutStack) == layoutStack[Len(layoutStack)]

RECURSIVE NearestFrom(_, _)
NearestFrom(layoutStack, i) ==
  IF i = 0 THEN layoutStack[1]
  ELSE IF layoutStack[i].isPositioned THEN layoutStack[i]
  ELSE NearestFrom(layoutStack, i - 1)

\* the current context instead of the nearest positioning one
getNearestPositioningContext_Current(layoutStack) ==
  layoutStack[Len(layoutStack)]

getNearestPositioningContext(layoutStack) ==
  NearestFrom(layoutStack, Len(layoutStack))

pushContext(layoutStack, context) == Append(layoutStack, context)

popContext_Keep(layoutStack) == layoutStack

popContext(layoutStack) ==
  IF Len(layoutStack) > 1 THEN SubSeq(layoutStack, 1, Len(layoutStack) - 1)
  ELSE layoutStack

\* extractStyles reading the per-side border properties as the collector does
extractStyles_PerSide(style) ==
  [borderRadius |-> style.borderRadius,
   backgroundColor |-> style.backgroundColor,
   fontSize |-> style.fontSize,
   fontWeight |-> style.fontWeight,
   border |-> IF "border" \in DOMAIN style THEN style.border
              ELSE [s \in Sides |-> NoBorder]]

\* HTMLParser.extractStyles: the per-side border properties are not read
extractStyles(style) ==
  [borderRadius |-> style.borderRadius,
   backgroundColor |-> style.backgroundColor,
   fontSize |-> style.fontSize,
   fontWeight |-> style.fontWeight,
   border |-> [s \in Sides |-> NoBorder]]

Offset_Zero(element, k) == 0

\* the explicit offset `parseDimension(el.style.k) || parseDimension(style.k) || 0`
Offset(element, k) ==
  OrElse(parseDimension(element.inline[k]), parseDimension(element.computed[k]))

\* `el.style.k || style.k` as a truth value
Has(element, k) == element.inline[k].unit # "" \/ element.computed[k].unit # ""

\* HTMLParser.calculatePosition: the box (in px) and the layout stack with
\* the flow cursor of the current context advanced
calculatePosition(element, layoutStack) ==
  LET tagName == element.tag
      style == element.computed
      context == getCurrentContext(layoutStack)
      width0 == OrElse(parseDimension(element.inline.width),
                       parseDimension(style.width))
      widthPx == IF width0 = 0
                   THEN OrElse(OrElse(parseDimension(element.inline.maxWidth),
                                      parseDimension(style.maxWidth)),
                               getDefaultWidth(tagName))
                   ELSE width0
      height0 == OrElse(parseDimension(element.inline.height),
                        parseDimension(style.height))
      heightPx == IF height0 = 0 THEN getDefaultHeight(tagName) ELSE height0
      marginTop == parseDimension(style.marginTop)
      marginBottom == parseDimension(style.marginBottom)
      marginLeft == parseDimension(style.marginLeft)
      marginRight == parseDimension(style.marginRight)
      position == IF style.position # "" THEN style.position ELSE "static"
      display == IF style.display # "" THEN style.display ELSE "block"
      isInline == display \in {"inline", "inline-block"}
      positioningContext == getNearestPositioningContext(layoutStack)
      fixedLeft == IF Has(element, "left") THEN Offset(element, "left")
                   ELSE IF Has(element, "right")
                     THEN 960 - widthPx - Offset(element, "right")
                   ELSE 0
      fixedTop == IF Has(element, "top") THEN Offset(element, "top")
                  ELSE IF Has(element, "bottom")
                    THEN 720 - heightPx - Offset(element, "bottom")
                  ELSE 0
      absLeft == IF Has(element, "left")
                   THEN positioningContext.originX + Offset(element, "left")
                 ELSE IF Has(element, "right")
                   THEN positioningContext.originX + 960 - widthPx - Offset(element, "right")
                 ELSE positioningContext.originX
      absTop == IF Has(element, "top")
                  THEN positioningContext.originY + Offset(element, "top")
                ELSE IF Has(element, "bottom")
                  THEN positioningContext.originY + 720 - heightPx - Offset(element, "bottom")
                ELSE positioningContext.originY
      flowLeft == IF isInline
                    THEN context.originX + context.cumulativeX + marginLeft
                    ELSE context.originX + marginLeft
      flowTop == IF isInline
                   THEN context.originY + context.cumulativeY
                   ELSE context.originY + context.cumulativeY + marginTop
      relDx == IF position \in {"relative", "sticky"}
                 THEN (IF Has(element, "left") THEN Offset(element, "left")
                       ELSE IF Has(element, "right")
                         THEN 0 - Offset(element, "right")
                       ELSE 0)
                 ELSE 0
      relDy == IF position \in {"relative", "sticky"}
                 THEN (IF Has(element, "top") THEN Offset(element, "top")
                       ELSE IF Has(element, "bottom")
                         THEN 0 - Offset(element, "bottom")
                       ELSE 0)
                 ELSE 0
      advanced == IF isInline
                    THEN [context EXCEPT
                            !.cumulativeX = @ + marginLeft + widthPx + marginRight]
                    ELSE [context EXCEPT
                            !.cumulativeY = @ + marginTop + heightPx + marginBottom,
                            !.cumulativeX = 0]
  IN  IF position = "fixed"
        THEN [position |-> Box(fixedLeft, fixedTop, widthPx, heightPx),
              layoutStack |-> layoutStack]
      ELSE IF position = "absolute"
        THEN [position |-> Box(absLeft, absTop, widthPx, heightPx),
              layoutStack |-> layoutStack]
      ELSE [position |-> Box(flowLeft + relDx, flowTop + relDy,
                             widthPx, heightPx),
            layoutStack |-> [layoutStack EXCEPT ![Len(layoutStack)] = advanced]]

\* HTMLParser.shouldIncludeElement
shouldIncludeElement(element) ==
  element.tag \notin {"script", "style", "meta", "link", "title"}

RECURSIVE parseElement(_, _, _)
RECURSIVE parseChildren(_, _, _)
\* HTMLParser.parseElement: the parsed element, the layout stack and the id
\* counter after it
parseElement(element, layoutStack, elementIdCounter) ==
  LET at == calculatePosition(element, layoutStack)
      own == [id |-> elementIdCounter, tagName |-> element.tag,
              textContent |-> element.text, position |-> at.position,
              styles |-> extractStyles(element.computed), children |-> <<>>]
      positionValue == IF element.computed.position # ""
                         THEN element.computed.position ELSE "static"
      pushed == pushContext(at.layoutStack,
                  [originX |-> at.position.x
                                 + parseDimension(element.computed.paddingLeft),
                   originY |-> at.position.y
                                 + parseDimension(element.computed.paddingTop),
                   cumulativeY |-> 0, cumulativeX |-> 0,
                   isPositioned |-> positionValue # "static"])
      kids == parseChildren(SelectSeq(element.children, shouldIncludeElement),
                            pushed, elementIdCounter + 1)
  IN  IF element.children # <<>>
        THEN [el |-> [own EXCEPT !.children = kids.els],
              layoutStack |-> popContext(kids.layoutStack),
              elementIdCounter |-> kids.elementIdCounter]
        ELSE [el |-> own, layoutStack |-> at.layoutStack,
              elementIdCounter |-> elementIdCounter + 1]

\* children.map(child => this.parseElement(child)), left to right
parseChildren(children, layoutStack, elementIdCounter) ==
  IF children = <<>>
    THEN [els |-> <<>>, layoutStack |-> layoutStack,
          elementIdCounter |-> elementIdCounter]
  ELSE LET first == parseElement(Head(children), layoutStack, elementIdCounter)
           rest == parseChildren(Tail(children), first.layoutStack,
                                 first.elementIdCounter)
       IN  [els |-> <<first.el>> \o rest.els,
            layoutStack |-> rest.layoutStack,
            elementIdCounter |-> rest.elementIdCounter]

\* the document body the constructor wraps the fragment in
BodyOf(fragment) == Dom("body", "", NoCss, fragment)

\* HTMLParser.parse
HTMLParserParse(fragment) ==
  parseElement(BodyOf(fragment), <<RootContext>>, 0).el.children

(***************************************************************************)
(* ElementClassifier                                                       *)
(***************************************************************************)
TextTags == {"h1", "h2", "h3", "h4", "h5", "h6", "p", "span", "a", "label"}

isTableElement(element) == element.tagName = "table"

\* cell.tagName.toLowerCase().includes('label' | 'value' | 'cell')
TableLikeCellTags == {"label"}

\* regular structure accepted only with label/value/cell tags among the cells
isTableLikeStructure_ClassesOnly(element) ==
  /\ element.tagName \notin {"table", "thead", "tbody", "tr", "th", "td"}
  /\ Len(element.children) >= 2
  /\ Len(element.children[1].children) >= 2
  /\ \A i \in 1..Len(element.children) :
       Len(element.children[i].children) = Len(element.children[1].children)
  /\ \E i \in 1..Len(element.children) :
       \E j \in 1..Len(element.children[i].children) :
         element.children[i].children[j].tagName \in TableLikeCellTags

isTableLikeStructure(element) ==
  LET rows == element.children
      firstRowChildCount == Len(rows[1].children)
      allRowsHaveSameColumns ==
        \A i \in 1..Len(rows) : Len(rows[i].children) = firstRowChildCount
      hasTableLikeClasses ==
        \E i \in 1..Len(rows) : \E j \in 1..Len(rows[i].children) :
          rows[i].children[j].tagName \in TableLikeCellTags
      isRegularStructure ==
        \A i \in 1..Len(rows) : Len(rows[i].children) = firstRowChildCount
  IN  IF element.tagName \in {"table", "thead", "tbody", "tr", "th", "td"}
        THEN FALSE
      ELSE IF Len(rows) < 2 THEN FALSE
      ELSE IF firstRowChildCount < 2 THEN FALSE
      ELSE IF ~allRowsHaveSameColumns THEN FALSE
      ELSE IF hasTableLikeClasses THEN TRUE
      ELSE isRegularStructure /\ Len(rows) >= 2 /\ firstRowChildCount >= 2

\* the circle rule never matching
isCircle_Never(element) == FALSE

\* |width - height| < 0.1 in, on numerators over 96
isCircle(element) ==
  LET borderRadius == element.styles.borderRadius
      \* borderRadius.includes("50%"): also "150%"
      is50Percent == borderRadius.num % 100 = 50 /\ borderRadius.unit = "%"
      similarDimensions ==
        10 * Abs(element.position.width - element.position.height) < PxPerInch
  IN  borderRadius.unit # "" /\ is50Percent /\ similarDimensions

hasRoundedCorners(element) ==
  LET borderRadius == element.styles.borderRadius
  IN  IF borderRadius.unit = "" \/ borderRadius = [num |-> 0, unit |-> "px"]
        THEN FALSE
        ELSE borderRadius.num > 0

\* the sides getVisibleBorderSide accepts: solid, width > 0, not transparent
VisibleSides(element) ==
  {s \in Sides :
     LET border == element.styles.border[s]
     IN  /\ border.present
         /\ border.width > 0
         /\ border.style = "solid"
         /\ border.color \notin {"transparent", "rgba(0, 0, 0, 0)"}}

\* ElementClassifier.getVisibleBorderSide: the first visible side in the
\* order top, right, bottom, left; "" for null
getVisibleBorderSide(element) ==
  LET order == <<"top", "right", "bottom", "left">>
      hits == SelectSeq(order, LAMBDA side : side \in VisibleSides(element))
  IN  IF hits = <<>> THEN "" ELSE hits[1]

isTriangle(element) ==
  LET isZeroDimensions ==
        /\ 100 * element.position.width < 5 * PxPerInch
        /\ 100 * element.position.height < 5 * PxPerInch
      backgroundColor == element.styles.backgroundColor
  IN  IF ~isZeroDimensions THEN FALSE
      ELSE IF backgroundColor \notin {"", "transparent", "rgba(0, 0, 0, 0)"}
        THEN FALSE
      ELSE getVisibleBorderSide(element) # ""

determineShapeType(element) ==
  IF isTableElement(element) \/ isTableLikeStructure(element) THEN "table"
  ELSE IF element.tagName \in TextTags THEN "text"
  ELSE IF element.tagName = "hr" THEN "line"
  ELSE IF isCircle(element) THEN "ellipse"
  ELSE IF hasRoundedCorners(element) THEN "roundRect"
  ELSE IF isTriangle(element) THEN "triangle"
  ELSE "rect"

\* parseInt(fontWeight) for the weights CSS computes
ParseWeight(fontWeight) ==
  CASE fontWeight = "100" -> 100 [] fontWeight = "400" -> 400
    [] fontWeight = "600" -> 600 [] fontWeight = "700" -> 700
    [] fontWeight = "900" -> 900 [] OTHER -> 0

\* cell.tagName.toLowerCase().includes('label' | 'header' | 'th')
HeaderLikeTags == {"label", "header", "th", "thead"}

isHeaderCell(cell) ==
  \/ cell.tagName \in HeaderLikeTags
  \/ /\ cell.styles.fontWeight # ""
     /\ \/ cell.styles.fontWeight \in {"bold", "700"}
        \/ ParseWeight(cell.styles.fontWeight) >= 600

\* Math.round(px * 0.75)
PxToPt(px) == (3 * px + 2) \div 4

\* ElementClassifier.extractCellStyles (font size; 0 stands for absent)
extractCellStyles(cell) ==
  [fontSize |-> IF cell.styles.fontSize # 0
                  THEN PxToPt(cell.styles.fontSize) ELSE 0]

\* rows left as collected
PadRow_None(row, numCols) == row

PadRow(row, numCols) ==
  [cells |-> row.cells \o
     [k \in 1..(numCols - Len(row.cells)) |->
        [text |-> "", isHeader |-> row.cells[1].isHeader,
         styles |-> [fontSize |-> 0]]]]

MaxCols(rows) ==
  SeqMax([i \in 1..Len(rows) |-> Len(rows[i].cells)], 0)

\* the th/td children of a tr as cells; header decides isHeader per cell tag
CellsOf(tr, header) ==
  LET tds == SelectSeq(tr.children, LAMBDA c : c.tagName \in {"th", "td"})
  IN  [k \in 1..Len(tds) |->
         [text |-> tds[k].textContent, isHeader |-> header[tds[k].tagName],
          styles |-> extractCellStyles(tds[k])]]

\* the rows (with at least one cell) of the tr children of a section
SectionRows(section, header) ==
  LET trs == SelectSeq(section.children, LAMBDA r : r.tagName = "tr")
      all == [k \in 1..Len(trs) |-> [cells |-> CellsOf(trs[k], header)]]
  IN  SelectSeq(all, LAMBDA r : r.cells # <<>>)

\* the last element of a sequence satisfying Test, or <<>>
LastWhere(seq, Test(_)) ==
  LET hits == SelectSeq(seq, Test)
  IN  IF hits = <<>> THEN <<>> ELSE <<hits[Len(hits)]>>

\* ElementClassifier.buildTableDataFromHTML
buildTableDataFromHTML(tableElement) ==
  LET kids == tableElement.children
      thead == LastWhere(kids, LAMBDA c : c.tagName = "thead")
      \* a direct tr stands in for tbody only while no tbody has been seen;
      \* a later tbody child replaces it
      IsBody(k) ==
        \/ kids[k].tagName = "tbody"
        \/ /\ kids[k].tagName = "tr"
           /\ \A m \in 1..(k - 1) : kids[m].tagName \notin {"tbody", "tr"}
      bodyIdx == {k \in 1..Len(kids) : IsBody(k)}
      lastBody == CHOOSE k \in bodyIdx : \A m \in bodyIdx : m <= k
      tbody == IF bodyIdx = {} THEN <<>>
               ELSE IF kids[lastBody].tagName = "tbody" THEN <<kids[lastBody]>>
               ELSE <<[kids[lastBody] EXCEPT !.tagName = "tbody",
                                             !.children = <<kids[lastBody]>>]>>
      headRows == IF thead = <<>> THEN <<>>
                  ELSE SectionRows(thead[1], [t \in {"th", "td"} |-> TRUE])
      hasHeader == headRows # <<>>
      bodyRows0 == IF tbody = <<>> THEN <<>>
                   ELSE SectionRows(tbody[1], [t \in {"th", "td"} |-> t = "th"])
      \* without a header row the first body row is marked as header
      bodyRows == IF ~hasHeader /\ bodyRows0 # <<>>
                    THEN [bodyRows0 EXCEPT
                            ![1] = [cells |->
                                      [k \in 1..Len(@.cells) |->
                                         [@.cells[k] EXCEPT !.isHeader = TRUE]]]]
                    ELSE bodyRows0
      rows == headRows \o bodyRows
      numCols == MaxCols(rows)
  IN  IF rows = <<>> THEN NoTable
      ELSE [rows |-> [i \in 1..Len(rows) |-> PadRow(rows[i], numCols)],
            numCols |-> numCols]

\* ElementClassifier.buildTableDataFromPseudoTable
buildTableDataFromPseudoTable(container) ==
  LET all == [rowIndex \in 1..Len(container.children) |->
                [cells |->
                   [k \in 1..Len(container.children[rowIndex].children) |->
                      LET cellElement == container.children[rowIndex].children[k]
                      IN  [text |-> cellElement.textContent,
                           isHeader |-> rowIndex = 1 \/ isHeaderCell(cellElement),
                           styles |-> extractCellStyles(cellElement)]]]]
      rows == SelectSeq(all, LAMBDA r : r.cells # <<>>)
      marked == IF \E k \in 1..Len(rows[1].cells) : rows[1].cells[k].isHeader
                  THEN [rows EXCEPT
                          ![1] = [cells |->
                                    [k \in 1..Len(@.cells) |->
                                       [@.cells[k] EXCEPT !.isHeader = TRUE]]]]
                  ELSE rows
      numCols == MaxCols(rows)
  IN  IF rows = <<>> THEN NoTable
      ELSE [rows |-> [i \in 1..Len(marked) |-> PadRow(marked[i], numCols)],
            numCols |-> numCols]

buildTableData(element) ==
  IF element.tagName = "table" THEN buildTableDataFromHTML(element)
  ELSE buildTableDataFromPseudoTable(element)

RECURSIVE classifyElement(_)
\* ElementClassifier.classifyElement; text "" stands for undefined
classifyElement(element) ==
  LET shapeType == determineShapeType(element)
      hasText == element.textContent # ""
                   \/ element.tagName \in (TextTags \cup {"button"})
  IN  [id |-> element.id,
       type |-> shapeType,
       position |-> element.position,
       styles |-> [fontSize |-> 0],
       text |-> IF hasText THEN element.textContent ELSE "",
       tableData |-> IF shapeType = "table" THEN buildTableData(element)
                     ELSE NoTable,
       children |-> IF shapeType = "table" THEN <<>>
                    ELSE [i \in 1..Len(element.children) |->
                            classifyElement(element.children[i])]]

\* ElementClassifier.classify
classify(elements) ==
  [i \in 1..Len(elements) |-> classifyElement(elements[i])]

(***************************************************************************)
(* PlaywrightLayoutCollector.normalizeCoordinates                          *)
(***************************************************************************)
RECURSIVE shiftCoordinates(_, _, _)
shiftCoordinates(els, minX, minY) ==
  [i \in 1..Len(els) |->
     [els[i] EXCEPT !.position.x = @ - minX, !.position.y = @ - minY,
                    !.children = shiftCoordinates(@, minX, minY)]]

normalizeCoordinates(elements) ==
  LET flat == Flatten(elements)
      xs == [i \in 1..Len(flat) |-> flat[i].position.x]
      ys == [i \in 1..Len(flat) |-> flat[i].position.y]
  IN  IF elements = <<>> THEN elements
      ELSE LET minX == SeqMin(xs, xs[1])
               minY == SeqMin(ys, ys[1])
           IN  IF minX # 0 \/ minY # 0
                 THEN shiftCoordinates(elements, minX, minY)
                 ELSE elements

(***************************************************************************)
(* ConversionPipeline: the synchronous steps of convert()                  *)
(***************************************************************************)
NoData == [id |-> 0, tag |-> "", pptxType |-> "", status |-> "", issue |-> "",
           htmlPosition |-> Box(0, 0, 0, 0), pptxPosition |-> Box(0, 0, 0, 0)]

\* the record addLog pushes (the timestamp is left out)
Log(level, message) ==
  [level |-> level, message |-> message, elementData |-> NoData]

RECURSIVE countElements(_)
countElements(elements) ==
  IF elements = <<>> THEN 0
  ELSE (IF Head(elements).type # "skip" THEN 1 ELSE 0)
         + countElements(Head(elements).children)
         + countElements(Tail(elements))

RECURSIVE filterSkipElements(_)
filterSkipElements(elements) ==
  IF elements = <<>> THEN <<>>
  ELSE LET element == Head(elements)
       IN  (IF element.type = "skip"
              THEN filterSkipElements(element.children)
              ELSE <<[element EXCEPT
                        !.children = filterSkipElements(element.children)]>>)
             \o filterSkipElements(Tail(elements))

\* x < 0 || y < 0 || x + width > slideWidth || y + height > slideHeight
OutsideSlide(position, slideWidth, slideHeight) ==
  \/ position.x < 0
  \/ position.y < 0
  \/ 1000 * (position.x + position.width) > PxPerInch * slideWidth
  \/ 1000 * (position.y + position.height) > PxPerInch * slideHeight

\* validateSlideBounds counting but never logging
validateSlideBounds_Silent(elements, options) == <<>>

\* ConversionPipeline.validateSlideBounds: the entries it appends
validateSlideBounds(elements, options) ==
  LET flat == Flatten(elements)
      outside == {i \in 1..Len(flat) :
                    OutsideSlide(flat[i].position, SlideWidthOf(options),
                                 SlideHeightOf(options))}
  IN  IF Cardinality(outside) > 0
        THEN <<Log("warning", "elements are outside slide bounds")>>
        ELSE <<>>

\* an absent styles.line
NoLine == [color |-> "", width |-> 0, dashType |-> ""]

SideOrder == <<"top", "right", "bottom", "left">>

\* the namedColors table of StyleConverter.convertColor
NamedColors ==
  [black |-> "000000", white |-> "FFFFFF", red |-> "FF0000",
   green |-> "00FF00", blue |-> "0000FF", yellow |-> "FFFF00",
   cyan |-> "00FFFF", magenta |-> "FF00FF"]

\* StyleConverter.convertColor; "" stands for undefined.  The rgb()/rgba()
\* and the #hex branch are tabulated for the colors the inputs use.
convertColor(cssColor) ==
  IF cssColor \in {"", "transparent", "rgba(0, 0, 0, 0)"} THEN ""
  ELSE IF cssColor = "rgb(0, 0, 0)" THEN "000000"
  ELSE IF cssColor = "rgba(255, 0, 0, 0.5)" THEN "FF0000"
  ELSE IF cssColor = "#000000" THEN "000000"
  ELSE IF cssColor \in DOMAIN NamedColors THEN NamedColors[cssColor]
  ELSE ""

\* StyleConverter.convertBorderWidth: Math.max(1, Math.round(px * 0.75))
convertBorderWidth(px) == IF PxToPt(px) > 1 THEN PxToPt(px) ELSE 1

\* StyleConverter.convertBorderStyle
convertBorderStyle(borderStyle) ==
  IF borderStyle = "dashed" THEN "dash"
  ELSE IF borderStyle = "dotted" THEN "dot"
  ELSE "solid"

\* hasTopBorder .. hasLeftBorder of StyleConverter.hasUniformBorder
HasSideBorder(border) ==
  border.present /\ border.width > 0 /\ border.style \notin {"", "none"}

hasUniformBorder_TopOnly(styles) == HasSideBorder(styles.border["top"])

\* StyleConverter.hasUniformBorder
hasUniformBorder(styles) ==
  LET top == styles.border["top"]
      right == styles.border["right"]
      bottom == styles.border["bottom"]
      left == styles.border["left"]
      allSidesHaveBorder ==
        /\ HasSideBorder(top) /\ HasSideBorder(right)
        /\ HasSideBorder(bottom) /\ HasSideBorder(left)
      sameWidth == /\ top.width = right.width /\ right.width = bottom.width
                   /\ bottom.width = left.width
      sameStyle == /\ top.style = right.style /\ right.style = bottom.style
                   /\ bottom.style = left.style
      sameColor == /\ top.color = right.color /\ right.color = bottom.color
                   /\ bottom.color = left.color
  IN  allSidesHaveBorder /\ sameWidth /\ sameStyle /\ sameColor

\* checkBorder of StyleConverter.extractSingleSidedBorders: whether the
\* side is pushed
CheckBorder(border) ==
  /\ border.present /\ border.width > 0
  /\ border.style \notin {"", "none"}
  /\ border.color # ""
  /\ convertColor(border.color) # ""

\* StyleConverter.extractSingleSidedBorders
extractSingleSidedBorders(parsedElement) ==
  LET styles == parsedElement.styles
      pushed == SelectSeq(SideOrder, LAMBDA side : CheckBorder(styles.border[side]))
  IN  [i \in 1..Len(pushed) |->
         [side |-> pushed[i],
          color |-> convertColor(styles.border[pushed[i]].color),
          width |-> convertBorderWidth(styles.border[pushed[i]].width),
          dashType |-> convertBorderStyle(styles.border[pushed[i]].style),
          elementPosition |-> parsedElement.position]]

\* the styles.line of StyleConverter.convertStyles.  The computed
\* borderColor shorthand of four equal side colors is that color, so
\* borderColor || borderTopColor is the top color.
UniformLine(styles) ==
  LET top == styles.border["top"]
      borderColor == IF top.color # "" THEN top.color ELSE "#000000"
  IN  [color |-> IF convertColor(borderColor) # ""
                   THEN convertColor(borderColor) ELSE "000000",
       width |-> convertBorderWidth(top.width),
       dashType |-> convertBorderStyle(top.style)]

\* an absent styles.fillOpacity; opacities are in hundredths
NoOpacity == -1

\* parseFloat of the opacity strings the inputs use, in hundredths
OpacityValue(opacity) ==
  IF opacity = "1" THEN 100 ELSE IF opacity = "0.5" THEN 50 ELSE 0

\* parsedElement.styles.opacity, "" when the style map has none
OpacityOf(styles) ==
  IF "opacity" \in DOMAIN styles THEN styles.opacity ELSE ""

\* the fill of StyleConverter.convertStyles for a color background, "" when
\* none is set
FillOf(backgroundColor) ==
  IF backgroundColor # "" /\ convertColor(backgroundColor) \notin {"", "transparent"}
    THEN convertColor(backgroundColor)
    ELSE ""

\* the fillOpacity of StyleConverter.convertStyles
FillOpacityOf(styles) ==
  IF OpacityOf(styles) # "" /\ OpacityValue(OpacityOf(styles)) < 100
    THEN OpacityValue(OpacityOf(styles))
    ELSE NoOpacity

\* StyleConverter.convertStyles: fill (of a color background), font size,
\* borders and opacity.  An absent singleSidedBorders is the empty list: the
\* code never stores an empty one.
convertStyles(parsedElement, pptxElement) ==
  [pptxElement EXCEPT
     !.styles =
       [fill |-> FillOf(parsedElement.styles.backgroundColor),
        fontSize |-> IF parsedElement.styles.fontSize # 0
                       THEN PxToPt(parsedElement.styles.fontSize)
                       ELSE 0,
        line |-> IF hasUniformBorder(parsedElement.styles)
                   THEN UniformLine(parsedElement.styles)
                   ELSE NoLine,
        singleSidedBorders |->
          IF hasUniformBorder(parsedElement.styles)
            THEN <<>>
            ELSE extractSingleSidedBorders(parsedElement),
        fillOpacity |-> FillOpacityOf(parsedElement.styles)]]

\* the walk without the descent into children
convertAllStyles_TopOnly(parsedElements, pptxElements) ==
  [i \in 1..Len(parsedElements) |->
     convertStyles(parsedElements[i], pptxElements[i])]

RECURSIVE convertAllStyles(_, _)
\* the index-parallel walk of the parsed and the classified forest
convertAllStyles(parsedElements, pptxElements) ==
  [i \in 1..Len(parsedElements) |->
     LET converted == convertStyles(parsedElements[i], pptxElements[i])
     IN  IF pptxElements[i].children # <<>>
           THEN [converted EXCEPT
                   !.children = convertAllStyles(parsedElements[i].children, @)]
           ELSE converted]

\* ConversionPipeline.logElementTransformation: the entry it appends
logElementTransformation(parsed, pptx) ==
  LET textLost == parsed.textContent # "" /\ pptx.type # "text" /\ pptx.text = ""
      tiny == \/ 10 * pptx.position.width < PxPerInch
              \/ 10 * pptx.position.height < PxPerInch
      outside ==
        \/ pptx.position.x < 0
        \/ pptx.position.y < 0
        \/ 1000 * (pptx.position.x + pptx.position.width)
             > PxPerInch * (DefaultSlideWidth + 500)
        \/ 1000 * (pptx.position.y + pptx.position.height)
             > PxPerInch * (DefaultSlideHeight + 500)
      status == IF outside THEN "error"
                ELSE IF tiny \/ textLost THEN "warning" ELSE "ok"
      issue == IF outside THEN "outside slide"
               ELSE IF tiny THEN "too small"
               ELSE IF textLost THEN "text may be lost" ELSE ""
  IN  [level |-> "element", message |-> "transformation",
       elementData |-> [id |-> parsed.id, tag |-> parsed.tagName,
                        pptxType |-> pptx.type, status |-> status,
                        issue |-> issue,
                        htmlPosition |-> parsed.position,
                        pptxPosition |-> pptx.position]]

RECURSIVE logAllElementTransformations(_, _)
logAllElementTransformations(parsedElements, pptxElements) ==
  IF parsedElements = <<>> THEN <<>>
  ELSE <<logElementTransformation(Head(parsedElements), Head(pptxElements))>>
         \o (IF Head(pptxElements).children # <<>>
               THEN logAllElementTransformations(Head(parsedElements).children,
                                                 Head(pptxElements).children)
               ELSE <<>>)
         \o logAllElementTransformations(Tail(parsedElements),
                                         Tail(pptxElements))

\* the emptiness checks of Step 2 left out
EmptyInputError_Unchecked(parsedElements, elementCount) == ""

\* the emptiness checks of Step 2: the message thrown, "" when none is
EmptyInputError(parsedElements, elementCount) ==
  IF Len(parsedElements) = 0 THEN "No elements to convert"
  ELSE IF elementCount = 0 THEN "No valid elements to convert"
  ELSE ""

\* Steps 5 and 6: the entries appended up to generate(), and the outcome
StepsScaled(parsedElements, options, generateOk, styled, scaling) ==
  [thrown |-> ~generateOk,
   error |-> IF generateOk THEN "" ELSE "generate failed",
   logs |-> <<Log("success", "Classified elements")>>
              \o validateSlideBounds(parsedElements, options)
              \o <<Log("success", "Converted CSS styles")>>
              \o <<Log("info", "element transformations")>>
              \o logAllElementTransformations(parsedElements, styled)
              \o scaling.logs
              \o (IF RatLess(scaling.scale, One)
                    THEN <<Log("info", "Applied scaling factor")>> ELSE <<>>)
              \o <<Log("info", "Generating PowerPoint file")>>,
   stages |-> IF generateOk
                THEN <<"classify", "validate", "styles", "scale", "generate",
                       "toBuffer">>
                ELSE <<"classify", "validate", "styles", "scale", "generate">>,
   classifiedElements |-> scaling.elements, den |-> scaling.den,
   scale |-> scaling.scale]

\* Step 4.5 and the scaling of Step 4.6 on the styled primitives
StepsStyled(parsedElements, options, generateOk, styled) ==
  StepsScaled(parsedElements, options, generateOk, styled,
              calculateAndApplyScaling(styled, options))

\* Step 2 after classification: the emptiness checks, then Steps 3 and 4
StepsClassified(parsedElements, options, generateOk, classifiedElements) ==
  IF EmptyInputError(parsedElements, countElements(classifiedElements)) # ""
    THEN [thrown |-> TRUE,
          error |-> EmptyInputError(parsedElements,
                                    countElements(classifiedElements)),
          logs |-> <<>>, stages |-> <<"classify">>,
          classifiedElements |-> <<>>, den |-> 1, scale |-> One]
  ELSE StepsStyled(parsedElements, options, generateOk,
                   convertAllStyles(parsedElements, classifiedElements))

\* convert() from Step 2 up to the await of generator.toBuffer():
\* the entries appended, the stages entered, and either the error thrown
\* or the primitives handed to the generator.  generateOk is the outcome of
\* PPTXGenerator.generate.
StepsFromClassify(parsedElements, options, generateOk) ==
  StepsClassified(parsedElements, options, generateOk,
                  filterSkipElements(classify(parsedElements)))

(***************************************************************************)
(* The HTML fragments of the runs: the DOM JSDOM builds from each, and the *)
(* element data page.evaluate can return for it (ids count from the body,  *)
(* which is el-0; boxes are viewport px).                                  *)
(***************************************************************************)
Docs == {"scenarioA", "card", "empty", "wideP", "offSlide"}

DomOf(html) ==
  CASE html = "scenarioA" ->
         <<Dom("div", "", [NoCss EXCEPT !.width = Px(2000), !.height = Px(2000)],
               <<Dom("p", "hi", NoCss, <<>>)>>)>>
    [] html = "card" ->
         <<Dom("p", "hello", [NoCss EXCEPT !.fontSize = 16], <<>>),
           Dom("div", "card", [NoCss EXCEPT !.width = Px(300),
                                            !.height = Px(200),
                                            !.paddingLeft = Px(10),
                                            !.paddingTop = Px(10)],
               <<Dom("span", "x", [NoCss EXCEPT !.fontSize = 6], <<>>)>>)>>
    [] html = "wideP" ->
         <<Dom("p", "wide", [NoCss EXCEPT !.width = Px(2000)], <<>>)>>
    [] html = "offSlide" ->
         <<Dom("div", "off", [NoCss EXCEPT !.position = "absolute",
                                           !.left = Px(1300), !.top = Px(100),
                                           !.width = Px(100),
                                           !.height = Px(50)], <<>>)>>
    [] OTHER -> <<>>

Rendered(id, tag, text, pos, fontSize, kids) ==
  [id |-> id, tagName |-> tag, textContent |-> text, position |-> pos,
   styles |-> [NoStyles EXCEPT !.fontSize = fontSize], children |-> kids]

BrowserLayouts(html) ==
  CASE html = "scenarioA" ->
         \* a block-level paragraph takes the width of its container; the
         \* second layout is a source that reports it shrunk to its text
         { <<Rendered(1, "div", "", Box(0, 16, 2000, 2000), 16,
               <<Rendered(2, "p", "hi", Box(0, 16, 2000, 18), 16, <<>>)>>)>>,
           <<Rendered(1, "div", "", Box(0, 0, 2000, 2000), 16,
               <<Rendered(2, "p", "hi", Box(0, 0, 24, 18), 16, <<>>)>>)>> }
    [] html = "card" ->
         { <<Rendered(1, "p", "hello", Box(0, 16, 1280, 18), 16, <<>>),
             Rendered(2, "div", "card", Box(0, 50, 310, 210), 16,
               <<Rendered(3, "span", "x", Box(10, 60, 8, 7), 6, <<>>)>>)>> }
    [] html = "wideP" ->
         { <<Rendered(1, "p", "wide", Box(0, 16, 2000, 18), 16, <<>>)>> }
    [] html = "offSlide" ->
         { <<Rendered(1, "div", "off", Box(1300, 100, 100, 50), 16, <<>>)>> }
    [] OTHER -> { <<>> }

\* the request bodies: one that fails validation, and every fragment with
\* and without browser layout at the default slide size
Requests ==
  {NoRequest}
    \cup [valid : {TRUE}, html : Docs, useBrowserLayout : BOOLEAN,
          options : {[slideWidth |-> 0, slideHeight |-> 0]}]
    \cup {[valid |-> TRUE, html |-> "card", useBrowserLayout |-> FALSE,
           options |-> [slideWidth |-> 10000, slideHeight |-> 7500]]}

(***************************************************************************)
(* convert(): the code between two awaits is one step.                     *)
(***************************************************************************)
\* the outer catch swallowing the error instead of rethrowing it
CatchOuter_Swallow(error) ==
  [logs |-> <<Log("error", error)>>, rethrow |-> FALSE]

\* the outer catch of convert(): one error entry, then rethrow
CatchOuter(error) ==
  [logs |-> <<Log("error", error)>>, rethrow |-> TRUE]

\* a browser failure propagating to the outer catch
RecoverFromBrowserError_Rethrow(html) ==
  [rethrow |-> TRUE, logs |-> <<>>, parsedElements |-> <<>>]

\* catch (browserError): a warning, then the whole tree from HTMLParser
RecoverFromBrowserError(html) ==
  [rethrow |-> FALSE,
   logs |-> <<Log("warning", "Playwright unavailable, using JSDOM parser"),
              Log("info", "parsed by traditional method")>>,
   parsedElements |-> HTMLParserParse(DomOf(html))]

GeometryErrors == {"browser launch failed", "newPage failed", "page failed"}

\* where the handler goes after responding, cleanup being skipped on errors
AfterResponse_NoFinally(status) == IF status = "200" THEN "cleanup" ELSE "done"

\* the finally block of the handler: every response is followed by cleanup()
AfterResponse(status) == "cleanup"

\* the results of Step 1 and of the later steps as one run; a throw of the
\* later steps passes through the outer catch
SegmentOf(source, parsedElements, preLogs, steps) ==
  [logs |-> preLogs \o steps.logs
              \o (IF steps.thrown THEN CatchOuter(steps.error).logs ELSE <<>>),
   thrown |-> steps.thrown, rethrow |-> CatchOuter(steps.error).rethrow,
   error |-> steps.error, source |-> source,
   parsedElements |-> parsedElements,
   classifiedElements |-> steps.classifiedElements,
   den |-> steps.den, scale |-> steps.scale,
   stages |-> <<"parse">> \o steps.stages]

\* the run from a parsed forest to the await of toBuffer() or to the throw
Segment(r, source, parsedElements, preLogs, generateOk) ==
  SegmentOf(source, parsedElements, preLogs,
            StepsFromClassify(parsedElements, r.options, generateOk))

\* the run after the inner catch has handled a geometry failure
Recovered(r, error, generateOk, rec) ==
  IF rec.rethrow
    THEN [logs |-> CatchOuter(error).logs, thrown |-> TRUE,
          rethrow |-> CatchOuter(error).rethrow,
          error |-> error, source |-> "none", parsedElements |-> <<>>,
          classifiedElements |-> <<>>, den |-> 1, scale |-> One,
          stages |-> <<"parse">>]
  ELSE Segment(r, "fallback", rec.parsedElements, rec.logs, generateOk)

\* a geometry failure: recovery by the inner catch, then the run as above
FallbackSegment(r, error, generateOk) ==
  Recovered(r, error, generateOk, RecoverFromBrowserError(r.html))

\* convert() has ended for call c: its result, and in a handler the response
Ended(c, kind, error, arr) ==
  /\ outcome' = [outcome EXCEPT
                   ![c] = [kind |-> kind, error |-> error,
                           buffer |-> (kind = "returned" /\ error = ""),
                           logs |-> arr]]
  /\ resp' = IF driver = "route"
               THEN [resp EXCEPT ![c] = IF kind = "returned" THEN "200"
                                        ELSE "500"]
               ELSE resp
  /\ pc' = [pc EXCEPT
              ![c] = IF driver = "route"
                       THEN AfterResponse(IF kind = "returned" THEN "200"
                                          ELSE "500")
                       ELSE "done"]

\* the effect of a segment on call c, whose entries go to array arr
Apply(c, arr, seg, base) ==
  /\ logArr' = [logArr EXCEPT ![arr] = @ \o seg.logs]
  /\ appended' = [appended EXCEPT ![c] = @ \o seg.logs]
  /\ run' = [run EXCEPT
               ![c] = [base EXCEPT
                         !.source = seg.source,
                         !.parsedElements = seg.parsedElements,
                         !.classifiedElements = seg.classifiedElements,
                         !.den = seg.den, !.scale = seg.scale,
                         !.stages = seg.stages]]
  /\ IF seg.thrown
       THEN Ended(c, IF seg.rethrow THEN "thrown" ELSE "returned",
                  seg.error, arr)
       ELSE /\ pc' = [pc EXCEPT ![c] = "awaitBuffer"]
            /\ UNCHANGED <<outcome, resp>>

\* convert() from its first line to its first await, for request r
StartConvert(c, r) ==
  LET i == inst[c]
      starting == <<Log("info", "Starting HTML parsing")>>
  IN  /\ curLogs' = [curLogs EXCEPT ![i] = c]
      /\ IF r.useBrowserLayout
           THEN /\ logArr' = [logArr EXCEPT
                                ![c] = starting \o <<Log("info", "using Playwright")>>]
                /\ appended' = [appended EXCEPT
                                  ![c] = starting \o <<Log("info", "using Playwright")>>]
                /\ collector' = [collector EXCEPT ![i].exists = TRUE]
                /\ IF collector[i].exists /\ collector[i].browser
                     THEN /\ pc' = [pc EXCEPT ![c] = "awaitNewPage"]
                          /\ run' = [run EXCEPT ![c].collects = @ + 1]
                     ELSE /\ pc' = [pc EXCEPT ![c] = "awaitLaunch"]
                          /\ run' = [run EXCEPT
                                       ![c].launches = @ + 1,
                                       ![c].collects =
                                         IF collector[i].exists THEN @ + 1
                                         ELSE @]
                /\ UNCHANGED <<outcome, resp>>
           ELSE /\ \E generateOk \in BOOLEAN :
                     Apply(c, c,
                           Segment(r, "fallback", HTMLParserParse(DomOf(r.html)),
                                   <<Log("info", "Starting HTML parsing"),
                                     Log("success", "Parsed root elements")>>,
                                   generateOk),
                           run[c])
                /\ UNCHANGED collector

\* POST /api/convert: validation, then convert() up to its first await
HandleRequest(c) ==
  /\ driver = "route"
  /\ pc[c] = "idle"
  /\ \E r \in Requests :
       /\ req' = [req EXCEPT ![c] = r]
       /\ IF r.valid
            THEN StartConvert(c, r)
            ELSE /\ resp' = [resp EXCEPT ![c] = "400"]
                 /\ pc' = [pc EXCEPT ![c] = AfterResponse("400")]
                 /\ UNCHANGED <<run, outcome, logArr, curLogs, appended,
                                collector>>
  /\ UNCHANGED <<fnVars, driver, inst, cleanupRan, launched, pageOpen>>

\* a direct pipeline.convert(html, options) call
CallConvert(c) ==
  /\ driver = "direct"
  /\ pc[c] = "idle"
  /\ \E r \in Requests :
       /\ r.valid
       /\ req' = [req EXCEPT ![c] = r]
       /\ StartConvert(c, r)
  /\ UNCHANGED <<fnVars, driver, inst, cleanupRan, launched, pageOpen>>

\* firefox.launch resolved: initialize() sets this.browser; collectLayout
\* goes on to newPage()
LaunchOk(c) ==
  /\ pc[c] = "awaitLaunch"
  /\ collector' = [collector EXCEPT ![inst[c]].browser = TRUE]
  /\ launched' = [launched EXCEPT ![inst[c]] = @ + 1]
  /\ pc' = [pc EXCEPT ![c] = "awaitNewPage"]
  /\ run' = [run EXCEPT ![c].collects = IF @ = 0 THEN 1 ELSE @]
  /\ UNCHANGED <<fnVars, driver, inst, req, outcome, resp, cleanupRan, logArr,
                 curLogs, appended, pageOpen>>

\* firefox.launch rejected: initialize() throws into catch (browserError)
LaunchFail(c) ==
  /\ pc[c] = "awaitLaunch"
  /\ \E generateOk \in BOOLEAN :
       Apply(c, curLogs[inst[c]],
             FallbackSegment(req[c], "browser launch failed", generateOk),
             [run[c] EXCEPT !.geometryFailed = TRUE])
  /\ UNCHANGED <<fnVars, driver, inst, req, cleanupRan, curLogs, collector,
                 launched, pageOpen>>

\* browser.newPage() resolved
NewPageOk(c) ==
  /\ pc[c] = "awaitNewPage"
  /\ pageOpen' = [pageOpen EXCEPT ![c] = TRUE]
  /\ pc' = [pc EXCEPT ![c] = "awaitPage"]
  /\ UNCHANGED <<fnVars, driver, inst, req, run, outcome, resp, cleanupRan,
                 logArr, curLogs, appended, collector, launched>>

\* browser.newPage() rejected: no page was opened
NewPageFail(c) ==
  /\ pc[c] = "awaitNewPage"
  /\ \E generateOk \in BOOLEAN :
       Apply(c, curLogs[inst[c]],
             FallbackSegment(req[c], "newPage failed", generateOk),
             [run[c] EXCEPT !.geometryFailed = TRUE])
  /\ UNCHANGED <<fnVars, driver, inst, req, cleanupRan, curLogs, collector,
                 launched, pageOpen>>

\* setViewportSize, setContent and evaluate resolved with the element data
PageOk(c) ==
  /\ pc[c] = "awaitPage"
  /\ \E layoutData \in BrowserLayouts(req[c].html) :
       run' = [run EXCEPT ![c].pending = <<layoutData>>]
  /\ pc' = [pc EXCEPT ![c] = "awaitPageClose"]
  /\ UNCHANGED <<fnVars, driver, inst, req, outcome, resp, cleanupRan, logArr,
                 curLogs, appended, collector, launched, pageOpen>>

\* one of them rejected
PageFail(c) ==
  /\ pc[c] = "awaitPage"
  /\ run' = [run EXCEPT ![c].pending = <<>>, ![c].geometryFailed = TRUE]
  /\ pc' = [pc EXCEPT ![c] = "awaitPageClose"]
  /\ UNCHANGED <<fnVars, driver, inst, req, outcome, resp, cleanupRan, logArr,
                 curLogs, appended, collector, launched, pageOpen>>

\* the run after collectLayout returned: decorative filtering, its warning
\* when nothing is left, the success entry, then the later steps
BrowserSegment(r, generateOk, parsedElements) ==
  Segment(r, "browser", parsedElements,
          (IF Len(parsedElements) = 0
             THEN <<Log("warning", "all elements were filtered out")>>
             ELSE <<>>)
            \o <<Log("success", "Playwright: elements with exact positions")>>,
          generateOk)

\* finally { await page.close() } done: collectLayout returns the normalized
\* data or rethrows; convert() runs on to its next await
PageClosed(c) ==
  /\ pc[c] = "awaitPageClose"
  /\ pageOpen' = [pageOpen EXCEPT ![c] = FALSE]
  /\ \E generateOk \in BOOLEAN :
       IF run[c].geometryFailed
         THEN Apply(c, curLogs[inst[c]],
                    FallbackSegment(req[c], "page failed", generateOk), run[c])
         ELSE Apply(c, curLogs[inst[c]],
                    BrowserSegment(req[c], generateOk,
                      filterDecorativeElements(
                        normalizeCoordinates(run[c].pending[1]))),
                    [run[c] EXCEPT !.pending = <<>>])
  /\ UNCHANGED <<fnVars, driver, inst, req, cleanupRan, curLogs, collector,
                 launched>>

\* generator.toBuffer() resolved: convert() returns { buffer, logs: this.logs }
BufferOk(c) ==
  /\ pc[c] = "awaitBuffer"
  /\ LET arr == curLogs[inst[c]]
         done == <<Log("success", "PowerPoint generation complete")>>
     IN  /\ logArr' = [logArr EXCEPT ![arr] = @ \o done]
         /\ appended' = [appended EXCEPT ![c] = @ \o done]
         /\ Ended(c, "returned", "", arr)
  /\ UNCHANGED <<fnVars, driver, inst, req, run, cleanupRan, curLogs,
                 collector, launched, pageOpen>>

\* generator.toBuffer() rejected: the outer catch
BufferFail(c) ==
  /\ pc[c] = "awaitBuffer"
  /\ LET arr == curLogs[inst[c]]
         caught == CatchOuter("toBuffer failed")
     IN  /\ logArr' = [logArr EXCEPT ![arr] = @ \o caught.logs]
         /\ appended' = [appended EXCEPT ![c] = @ \o caught.logs]
         /\ Ended(c, IF caught.rethrow THEN "thrown" ELSE "returned",
                  "toBuffer failed", arr)
  /\ UNCHANGED <<fnVars, driver, inst, req, run, cleanupRan, curLogs,
                 collector, launched, pageOpen>>

\* finally { await pipeline.cleanup() }: the collector's browser is closed
\* and browserCollector set to null
Cleanup(c) ==
  /\ pc[c] = "cleanup"
  /\ cleanupRan' = [cleanupRan EXCEPT ![c] = TRUE]
  /\ launched' = [launched EXCEPT
                    ![inst[c]] = IF collector[inst[c]].exists
                                      /\ collector[inst[c]].browser
                                   THEN @ - 1 ELSE @]
  /\ collector' = [collector EXCEPT
                     ![inst[c]] = [exists |-> FALSE, browser |-> FALSE]]
  /\ pc' = [pc EXCEPT ![c] = "done"]
  /\ UNCHANGED <<fnVars, driver, inst, req, run, outcome, resp, logArr,
                 curLogs, appended, pageOpen>>

\* the handlers of routes.ts: every request on a pipeline of its own
Init ==
  /\ FnIdle
  /\ driver = "route"
  /\ inst = [c \in Calls |-> IF c = "A" THEN "p1" ELSE "p2"]
  /\ pc = [c \in Calls |-> "idle"]
  /\ req = [c \in Calls |-> NoRequest]
  /\ run = [c \in Calls |-> NoRun]
  /\ outcome = [c \in Calls |-> NoOutcome]
  /\ resp = [c \in Calls |-> "none"]
  /\ cleanupRan = [c \in Calls |-> FALSE]
  /\ logArr = [a \in Calls \cup {"ctor"} |-> <<>>]
  /\ curLogs = [i \in Instances |-> "ctor"]
  /\ appended = [c \in Calls |-> <<>>]
  /\ collector = [i \in Instances |-> [exists |-> FALSE, browser |-> FALSE]]
  /\ launched = [i \in Instances |-> 0]
  /\ pageOpen = [c \in Calls |-> FALSE]

Next ==
  \E c \in Calls :
    \/ HandleRequest(c)
    \/ LaunchOk(c)
    \/ LaunchFail(c)
    \/ NewPageOk(c)
    \/ NewPageFail(c)
    \/ PageOk(c)
    \/ PageFail(c)
    \/ PageClosed(c)
    \/ BufferOk(c)
    \/ BufferFail(c)
    \/ Cleanup(c)

Spec == Init /\ [][Next]_vars

\* convert() called directly, the two calls on one pipeline or on two
InitShared ==
  /\ FnIdle
  /\ driver = "direct"
  /\ inst \in [Calls -> Instances]
  /\ pc = [c \in Calls |-> "idle"]
  /\ req = [c \in Calls |-> NoRequest]
  /\ run = [c \in Calls |-> NoRun]
  /\ outcome = [c \in Calls |-> NoOutcome]
  /\ resp = [c \in Calls |-> "none"]
  /\ cleanupRan = [c \in Calls |-> FALSE]
  /\ logArr = [a \in Calls \cup {"ctor"} |-> <<>>]
  /\ curLogs = [i \in Instances |-> "ctor"]
  /\ appended = [c \in Calls |-> <<>>]
  /\ collector = [i \in Instances |-> [exists |-> FALSE, browser |-> FALSE]]
  /\ launched = [i \in Instances |-> 0]
  /\ pageOpen = [c \in Calls |-> FALSE]

NextShared ==
  \E c \in Calls :
    \/ CallConvert(c)
    \/ LaunchOk(c)
    \/ LaunchFail(c)
    \/ NewPageOk(c)
    \/ NewPageFail(c)
    \/ PageOk(c)
    \/ PageFail(c)
    \/ PageClosed(c)
    \/ BufferOk(c)
    \/ BufferFail(c)

SpecShared == InitShared /\ [][NextShared]_vars

(***************************************************************************)
(* Properties of a conversion run.                                         *)
(***************************************************************************)
Step1Done(c) == run[c].stages # <<>>

ErrorEntries(log) == {k \in 1..Len(log) : log[k].level = "error"}

\* C5: in every run on <div style="width:2000px;height:2000px"><p>hi</p></div>
\* at default slide size, from the geometry source or from the fallback
\* engine, the top-level primitives are exactly one text primitive "hi"
C5_ScenarioAHoisted ==
  \A c \in Calls :
    (req[c].html = "scenarioA" /\ Step1Done(c))
      => /\ Len(run[c].classifiedElements) = 1
         /\ run[c].classifiedElements[1].type = "text"
         /\ run[c].classifiedElements[1].text = "hi"

\* C6: a run whose tree is empty after parsing and decorative filtering
\* throws an explicit error at the start of Step 2 and returns no buffer
C6_EmptyInputFatal ==
  \A c \in Calls :
    (Step1Done(c) /\ Len(run[c].parsedElements) = 0)
      => /\ outcome[c].kind = "thrown"
         /\ ~outcome[c].buffer
         /\ outcome[c].error = "No elements to convert"
         /\ run[c].stages = <<"parse", "classify">>
         /\ resp[c] = "500"

C6_Witness ==
  \E c \in Calls :
    /\ req[c].html = "wideP"
    /\ run[c].source = "browser"
    /\ Len(run[c].parsedElements) = 0
    /\ outcome[c].kind = "thrown"

\* C7: a run launches the browser and collects the layout at most once; when
\* the geometry source fails the whole tree is the fallback engine's, the
\* failure is logged as a warning and never as an error, and the run goes on
\* to classification
C7_GeometryFailureFallsBackOnce ==
  \A c \in Calls :
    /\ run[c].launches <= 1
    /\ run[c].collects <= 1
    /\ (run[c].geometryFailed /\ pc[c] # "awaitPageClose")
         => /\ run[c].source = "fallback"
            /\ run[c].parsedElements = HTMLParserParse(DomOf(req[c].html))
            /\ \E k \in 1..Len(appended[c]) :
                 /\ appended[c][k].level = "warning"
                 /\ appended[c][k].message
                      = "Playwright unavailable, using JSDOM parser"
            /\ \A k \in ErrorEntries(appended[c]) :
                 appended[c][k].message \notin GeometryErrors
            /\ Len(run[c].stages) >= 2
            /\ run[c].stages[2] = "classify"

C7_Witness ==
  \E c \in Calls :
    /\ run[c].geometryFailed
    /\ run[c].collects = 1
    /\ run[c].source = "fallback"
    /\ Len(run[c].classifiedElements) > 0
    /\ outcome[c].kind = "returned"

\* C8: when a POST /api/convert handler has ended, whatever its response,
\* cleanup() has run and its pipeline holds neither a collector nor an open
\* browser; a page is open only while collectLayout is inside its try block
C8_ReleasedOnEveryExit ==
  \A c \in Calls :
    /\ pc[c] = "done"
         => /\ resp[c] \in {"200", "400", "500"}
            /\ cleanupRan[c]
            /\ ~collector[inst[c]].exists
            /\ launched[inst[c]] = 0
    /\ pageOpen[c] => pc[c] \in {"awaitPage", "awaitPageClose"}

C8_Witness ==
  \E c \in Calls :
    /\ pc[c] = "done"
    /\ resp[c] = "500"
    /\ run[c].source = "browser"
    /\ run[c].launches = 1
    /\ cleanupRan[c]

\* C9: the log array a convert() call returns holds exactly the entries that
\* call appended, in order, also when another call runs on the same pipeline
C9_LogIsolation ==
  \A c \in Calls :
    outcome[c].kind = "returned" => logArr[outcome[c].logs] = appended[c]

FullStages ==
  <<"parse", "classify", "validate", "styles", "scale", "generate", "toBuffer">>

FailingStage(error) ==
  CASE error = "No elements to convert" -> "classify"
    [] error = "No valid elements to convert" -> "classify"
    [] error = "generate failed" -> "generate"
    [] error = "toBuffer failed" -> "toBuffer"
    [] OTHER -> "parse"

\* C10: a convert() call that has ended either returned a buffer with the
\* whole ordered log of the run and no error entry, or threw after appending
\* one error-level entry, as the last one, for the error thrown, with no
\* buffer and no stage entered after the failing one
C10_ExactlyOneOutcome ==
  \A c \in Calls :
    /\ (outcome[c].kind # "none") <=> (req[c].valid /\ pc[c] \in {"cleanup", "done"})
    /\ outcome[c].kind = "returned"
         => /\ outcome[c].buffer
            /\ outcome[c].error = ""
            /\ run[c].stages = FullStages
            /\ logArr[outcome[c].logs] = appended[c]
            /\ ErrorEntries(appended[c]) = {}
    /\ outcome[c].kind = "thrown"
         => /\ ~outcome[c].buffer
            /\ outcome[c].error # ""
            /\ ErrorEntries(appended[c]) = {Len(appended[c])}
            /\ appended[c][Len(appended[c])].message = outcome[c].error
            /\ run[c].stages = SubSeq(FullStages, 1, Len(run[c].stages))
            /\ run[c].stages[Len(run[c].stages)] = FailingStage(outcome[c].error)

C10_Witness ==
  /\ outcome["A"].kind = "returned"
  /\ outcome["B"].kind = "thrown"
  /\ outcome["B"].error = "toBuffer failed"

\* the final box of a primitive (numerators over 96*den) against the slide
OutsideFinal(position, den, slideWidth, slideHeight) ==
  \/ position.x < 0
  \/ position.y < 0
  \/ /\ position.x + position.width > 0
     /\ FracLess(slideWidth, 1000, position.x + position.width,
                 PxPerInch * den)
  \/ /\ position.y + position.height > 0
     /\ FracLess(slideHeight, 1000, position.y + position.height,
                 PxPerInch * den)

SomePrimitiveOutside(c) ==
  \E i \in 1..Len(Flatten(run[c].classifiedElements)) :
    OutsideFinal(Flatten(run[c].classifiedElements)[i].position, run[c].den,
                 SlideWidthOf(req[c].options), SlideHeightOf(req[c].options))

BoundsReports == {"elements are outside slide bounds", "still exceeds after scaling"}

\* C11: when convert() has returned and some primitive's box after scaling
\* lies outside the configured slide, the returned log holds a warning- or
\* error-level entry reporting the bounds violation, and a buffer is returned
C11_BoundsViolationSurfaced ==
  \A c \in Calls :
    (outcome[c].kind = "returned" /\ SomePrimitiveOutside(c))
      => /\ outcome[c].buffer
         /\ \E k \in 1..Len(logArr[outcome[c].logs]) :
              /\ logArr[outcome[c].logs][k].level \in {"warning", "error"}
              /\ logArr[outcome[c].logs][k].message \in BoundsReports

C11_Witness ==
  \E c \in Calls :
    /\ req[c].html = "offSlide"
    /\ outcome[c].kind = "returned"
    /\ run[c].scale = One
    /\ SomePrimitiveOutside(c)

\* the element-level entries of the log a call returned
ElementEntries(c) ==
  SelectSeq(logArr[outcome[c].logs], LAMBDA entry : entry.level = "element")

\* a box before scaling (numerators over 96) as numerators over 96*den
OverDen(position, den) ==
  [x |-> position.x * den, y |-> position.y * den,
   width |-> position.width * den, height |-> position.height * den]

\* C18: in the log convert() returns, an element-level entry has status
\* error exactly when the element's primitive, with its final box after
\* auto-scaling, is outside the slide, and the entry holds the geometry
\* before (the parsed box) and after (the final box)
C18_ErrorStatusFromFinalBox ==
  \A c \in Calls :
    outcome[c].kind = "returned"
      => LET entries == ElementEntries(c)
             final == Flatten(run[c].classifiedElements)
         IN  /\ Len(entries) = Len(final)
             /\ \A k \in 1..Len(entries) :
                  /\ (entries[k].elementData.status = "error")
                       <=> OutsideFinal(final[k].position, run[c].den,
                                        SlideWidthOf(req[c].options),
                                        SlideHeightOf(req[c].options))
                  /\ OverDen(entries[k].elementData.pptxPosition, run[c].den)
                       = final[k].position

\* C25: in the log convert() returns, every element with non-empty direct
\* text whose primitive is not a text primitive has an element entry with
\* status warning saying that the text may be lost
C25_TextLossFlagged ==
  \A c \in Calls :
    outcome[c].kind = "returned"
      => \A k \in 1..Len(Flatten(run[c].classifiedElements)) :
           LET pptx == Flatten(run[c].classifiedElements)[k]
               parsed == Flatten(run[c].parsedElements)
               carriesText == \E j \in 1..Len(parsed) :
                                /\ parsed[j].id = pptx.id
                                /\ parsed[j].textContent # ""
           IN  (carriesText /\ pptx.type # "text")
                 => \E n \in 1..Len(ElementEntries(c)) :
                      /\ ElementEntries(c)[n].elementData.id = pptx.id
                      /\ ElementEntries(c)[n].elementData.status = "warning"
                      /\ ElementEntries(c)[n].elementData.issue = "text may be lost"

(***************************************************************************)
(* Specification SpecClassify: classifyElement applied to shapes, to grids *)
(* of rows and cells, and to native tables.                                *)
(***************************************************************************)
El(tag, text, pos, styles, kids) ==
  [ParsedEl(tag, text, pos, styles) EXCEPT !.children = kids]

CellNames == <<"a", "b", "c", "d", "e", "f", "g", "h", "i", "j", "k", "l">>

CellText(i, j) == CellNames[i] \o CellNames[j]

\* the number of children of each row: up to MaxRows rows of up to MaxCells
RowCounts == UNION {[1..n -> 0..MaxCells] : n \in 0..MaxRows}

Radius(num, unit) == [num |-> num, unit |-> unit]

SolidBorder(width, color) ==
  [present |-> TRUE, width |-> width, color |-> color, style |-> "solid"]

\* box and style map of the element classified
ShapeKinds ==
  { [position |-> Box(0, 0, 100, 50), styles |-> NoStyles],
    [position |-> Box(0, 0, 100, 100),
     styles |-> [NoStyles EXCEPT !.borderRadius = Radius(50, "%")]],
    [position |-> Box(0, 0, 100, 50),
     styles |-> [NoStyles EXCEPT !.borderRadius = Radius(50, "%")]],
    [position |-> Box(0, 0, 105, 100),
     styles |-> [NoStyles EXCEPT !.borderRadius = Radius(150, "%")]],
    [position |-> Box(0, 0, 110, 100),
     styles |-> [NoStyles EXCEPT !.borderRadius = Radius(8, "px")]],
    [position |-> Box(0, 0, 100, 100),
     styles |-> [NoStyles EXCEPT !.borderRadius = Radius(0, "px")]],
    [position |-> Box(0, 0, 0, 0),
     styles |-> [NoStyles EXCEPT
                   !.border = [s \in Sides |->
                                 IF s = "bottom" THEN SolidBorder(10, "red")
                                 ELSE SolidBorder(10, "transparent")]]],
    [position |-> Box(0, 0, 0, 0),
     styles |-> [NoStyles EXCEPT
                   !.backgroundColor = "blue",
                   !.border = [s \in Sides |-> SolidBorder(2, "red")]]],
    [position |-> Box(0, 0, 0, 0),
     styles |-> [NoStyles EXCEPT
                   !.border = [s \in Sides |->
                                 IF s \in {"top", "left"} THEN SolidBorder(10, "red")
                                 ELSE SolidBorder(10, "transparent")]]] }

ShapeTags == {"div", "p", "hr", "button", "tbody"}

\* an element of tag and kind whose children are rows of cells
Grid(tag, kind, counts, cellTag) ==
  El(tag, "", kind.position, kind.styles,
     [i \in 1..Len(counts) |->
        El("div", "", Box(0, 20 * i, 100, 20), NoStyles,
           [j \in 1..counts[i] |->
              El(cellTag, CellText(i, j), Box(30 * j, 20 * i, 30, 20),
                 [NoStyles EXCEPT !.fontSize = 16], <<>>)])])

Grids ==
  {Grid(tag, kind, counts, cellTag) :
     tag \in ShapeTags, kind \in ShapeKinds, counts \in RowCounts,
     cellTag \in {"div", "label"}}

\* a row of a native table: n cells of tag cellTag
Tr(i, n, cellTag) ==
  El("tr", "", Box(0, 20 * i, 100, 20), NoStyles,
     [j \in 1..n |->
        El(cellTag, CellText(i, j), Box(30 * j, 20 * i, 30, 20),
           [NoStyles EXCEPT !.fontSize = 16], <<>>)])

\* a child of a table: thead or tbody with rows, or a direct tr
SectionKinds ==
  [tag : {"thead", "tbody"},
   counts : {<<>>, <<1>>, <<2>>, <<2, 1>>, <<0, 2>>}]
    \cup [tag : {"tr"}, counts : {<<0>>, <<1>>, <<2>>}]

Section(i, kind) ==
  IF kind.tag = "tr"
    THEN Tr(2 * i, kind.counts[1], "td")
    ELSE El(kind.tag, "", Box(0, 40 * i, 100, 40), NoStyles,
            [k \in 1..Len(kind.counts) |->
               Tr(2 * i + k - 1, kind.counts[k],
                  IF kind.tag = "thead" THEN "th" ELSE "td")])

Tables ==
  {El("table", "", Box(0, 0, 100, 100), NoStyles,
      [i \in 1..Len(kinds) |-> Section(i, kinds[i])]) :
     kinds \in UNION {[1..n -> SectionKinds] : n \in 0..MaxRows}}

ClassifyInputs == Grids \cup Tables

InitClassify ==
  /\ PipeIdle
  /\ fnIn \in {[element |-> e] : e \in ClassifyInputs}
  /\ fnOut = <<>>
  /\ fnPc = "input"

ClassifyElement ==
  /\ fnPc = "input"
  /\ "element" \in DOMAIN fnIn
  /\ fnOut' = classifyElement(fnIn.element)
  /\ fnPc' = "classifyElement"
  /\ UNCHANGED <<fnIn, pipeVars>>

NextClassify == ClassifyElement

SpecClassify == InitClassify /\ [][NextClassify]_vars

Classified == fnPc = "classifyElement"

\* C12: two elements with the same tag, box and style map are classified to
\* the same primitive type, whatever their children are
C12_TypeFromTagBoxStyles ==
  Classified
    => \A other \in ClassifyInputs :
         (/\ other.tagName = fnIn.element.tagName
          /\ other.position = fnIn.element.position
          /\ other.styles = fnIn.element.styles)
           => classifyElement(other).type = fnOut.type

ShapeOrder ==
  <<"table", "text", "line", "ellipse", "roundRect", "triangle", "rect">>

\* the rule of each primitive type, on the element's own fields
RuleMatches(type, e) ==
  CASE type = "table" ->
         \/ e.tagName = "table"
         \/ /\ e.tagName \notin {"thead", "tbody", "tr", "th", "td"}
            /\ Len(e.children) >= 2
            /\ \E k \in 2..MaxCells + 1 :
                 \A i \in 1..Len(e.children) : Len(e.children[i].children) = k
    [] type = "text" ->
         e.tagName \in {"h1", "h2", "h3", "h4", "h5", "h6", "p", "span", "a",
                        "label"}
    [] type = "line" -> e.tagName = "hr"
    [] type = "ellipse" ->
         /\ e.styles.borderRadius.unit = "%"
         /\ e.styles.borderRadius.num % 100 = 50
         /\ 10 * (e.position.width - e.position.height) < PxPerInch
         /\ 10 * (e.position.height - e.position.width) < PxPerInch
    [] type = "roundRect" ->
         e.styles.borderRadius.unit # "" /\ e.styles.borderRadius.num > 0
    [] type = "triangle" ->
         /\ 100 * e.position.width < 5 * PxPerInch
         /\ 100 * e.position.height < 5 * PxPerInch
         /\ e.styles.backgroundColor \in {"", "transparent", "rgba(0, 0, 0, 0)"}
         /\ \E side \in Sides :
              /\ e.styles.border[side].present
              /\ e.styles.border[side].width > 0
              /\ e.styles.border[side].style = "solid"
              /\ e.styles.border[side].color
                   \notin {"transparent", "rgba(0, 0, 0, 0)"}
    [] OTHER -> TRUE

FirstMatch(e) ==
  ShapeOrder[CHOOSE i \in 1..Len(ShapeOrder) :
               /\ RuleMatches(ShapeOrder[i], e)
               /\ \A m \in 1..(i - 1) : ~RuleMatches(ShapeOrder[m], e)]

IsScenarioC(e, width, height) ==
  /\ e.tagName = "div"
  /\ e.children = <<>>
  /\ e.styles.borderRadius = Radius(50, "%")
  /\ e.position.width = width
  /\ e.position.height = height

\* C13: the type is one of the seven, the first in the order table, text,
\* line, ellipse, roundRect, triangle, rect whose rule matches; a div with
\* border-radius 50% of 100px x 100px is an ellipse, of 100px x 50px a roundRect
C13_FirstMatchWins ==
  Classified
    => /\ fnOut.type \in SeqRange(ShapeOrder)
       /\ fnOut.type = FirstMatch(fnIn.element)
       /\ IsScenarioC(fnIn.element, 100, 100) => fnOut.type = "ellipse"
       /\ IsScenarioC(fnIn.element, 100, 50) => fnOut.type = "roundRect"

C13_Witness ==
  /\ Classified
  /\ IsScenarioC(fnIn.element, 100, 100)
  /\ fnOut.type = "ellipse"

NativeTableTags == {"table", "thead", "tbody", "tr", "th", "td"}

\* at least 2 children, every child with the same number k >= 2 of children
RegularGrid(e, k) ==
  /\ k >= 2
  /\ Len(e.children) >= 2
  /\ \A i \in 1..Len(e.children) : Len(e.children[i].children) = k

\* C14: an element whose tag is not of the native table family is classified
\* table exactly when it has at least 2 children that all have the same
\* number k >= 2 of children, whatever its own tag; it is then one table
\* primitive with numCols = k and one row per child
C14_StructuralTable ==
  (Classified /\ fnIn.element.tagName \notin NativeTableTags)
    => /\ (fnOut.type = "table")
            <=> \E k \in 2..MaxCells : RegularGrid(fnIn.element, k)
       /\ \A k \in 2..MaxCells :
            RegularGrid(fnIn.element, k)
              => /\ fnOut.children = <<>>
                 /\ fnOut.tableData.numCols = k
                 /\ Len(fnOut.tableData.rows) = Len(fnIn.element.children)

C14_Witness ==
  /\ Classified
  /\ fnIn.element.tagName = "div"
  /\ Len(fnIn.element.children) = 3
  /\ RegularGrid(fnIn.element, 3)
  /\ fnIn.element.children[1].children[1].tagName = "div"
  /\ fnOut.type = "table"
  /\ fnOut.tableData.numCols = 3
  /\ Len(fnOut.tableData.rows) = 3

\* the cells a row was built with: padding cells have an empty text, the
\* cells of the input family never do
RealCells(row) == Cardinality({k \in 1..Len(row.cells) : row.cells[k].text # ""})

PaddedToMax(tableData) ==
  /\ \A r \in 1..Len(tableData.rows) :
       /\ Len(tableData.rows[r].cells) = tableData.numCols
       /\ \A k \in 1..Len(tableData.rows[r].cells) :
            (tableData.rows[r].cells[k].text = "")
              <=> k > RealCells(tableData.rows[r])
  /\ \E r \in 1..Len(tableData.rows) :
       RealCells(tableData.rows[r]) = tableData.numCols

\* C15: in every TableData the classifier builds, from a native table or
\* from rows of cells, numCols is the largest number of cells a row was built
\* with and every row has exactly numCols cells after padding
C15_RowsPaddedToNumCols ==
  Classified
    => /\ fnOut.tableData # NoTable => PaddedToMax(fnOut.tableData)
       /\ buildTableData(fnIn.element) # NoTable
            => PaddedToMax(buildTableData(fnIn.element))

C15_Witness ==
  /\ Classified
  /\ fnIn.element.tagName = "table"
  /\ fnOut.tableData.numCols = 2
  /\ \E r \in 1..Len(fnOut.tableData.rows) :
       /\ RealCells(fnOut.tableData.rows[r]) = 1
       /\ Len(fnOut.tableData.rows[r].cells) = 2

RECURSIVE ConcatAll(_)
ConcatAll(seqs) ==
  IF seqs = <<>> THEN <<>> ELSE Head(seqs) \o ConcatAll(Tail(seqs))

TextsOf(els) == [k \in 1..Len(els) |-> els[k].textContent]

\* the th/td cell texts of a tr, as a one-row list, or no row without cells
TrRow(tr) ==
  LET cells == SelectSeq(tr.children, LAMBDA c : c.tagName \in {"th", "td"})
  IN  IF cells = <<>> THEN <<>> ELSE <<TextsOf(cells)>>

\* the rows of the source, in source order, each as its cell texts
SourceRows(e) ==
  IF e.tagName = "table"
    THEN ConcatAll([i \in 1..Len(e.children) |->
           IF e.children[i].tagName = "tr" THEN TrRow(e.children[i])
           ELSE IF e.children[i].tagName \in {"thead", "tbody"}
             THEN ConcatAll([k \in 1..Len(e.children[i].children) |->
                    IF e.children[i].children[k].tagName = "tr"
                      THEN TrRow(e.children[i].children[k]) ELSE <<>>])
           ELSE <<>>])
    ELSE ConcatAll([i \in 1..Len(e.children) |->
           IF e.children[i].children = <<>> THEN <<>>
           ELSE <<TextsOf(e.children[i].children)>>])

\* the rows of a TableData as the texts of the cells they were built with
BuiltRows(tableData) ==
  [r \in 1..Len(tableData.rows) |->
     [k \in 1..RealCells(tableData.rows[r]) |-> tableData.rows[r].cells[k].text]]

\* C16: a primitive classified table has no children, and its tableData is
\* present and holds, in source order, one row for every source row with at
\* least one cell (tr under thead, under any tbody or directly under the
\* table; child with children of a pseudo-table)
C16_TableDataCapturesRows ==
  (Classified /\ fnOut.type = "table")
    => /\ fnOut.children = <<>>
       /\ fnOut.tableData # NoTable
       /\ BuiltRows(fnOut.tableData) = SourceRows(fnIn.element)

(***************************************************************************)
(* StyleConverter.convertStyles over the border styles of one element:     *)
(* every side is drawn from BorderKinds.                                   *)
(***************************************************************************)
Border(width, style, color) ==
  [present |-> TRUE, width |-> width, color |-> color, style |-> style]

\* the four sides as the collector reports them (present) or as
\* HTMLParser.extractStyles leaves them (absent)
BorderKinds ==
  { NoBorder,
    Border(0, "none", "rgb(0, 0, 0)"),
    Border(4, "solid", "red"),
    Border(4, "solid", "rgba(0, 0, 0, 0)"),
    Border(2, "dashed", "blue"),
    Border(4, "solid", "orange"),
    Border(4, "none", "red") }

\* backgrounds and opacities as the style map reports them
FillInputs ==
  { El("div", "", Box(100, 100, 100, 50),
       [k \in DOMAIN NoStyles \cup {"opacity"} |->
          IF k = "opacity" THEN opacity
          ELSE IF k = "backgroundColor" THEN background
          ELSE NoStyles[k]], <<>>) :
      background \in {"", "red", "#000000", "rgb(0, 0, 0)", "rgba(255, 0, 0, 0.5)",
                      "rgba(0, 0, 0, 0)", "transparent"},
      opacity \in {"", "1", "0.5", "0"} }

StyleInputs ==
  { El("div", "", Box(100, 100, 100, 50), [NoStyles EXCEPT !.border = b], <<>>) :
      b \in [Sides -> BorderKinds] }
    \cup FillInputs

InitStyles ==
  /\ PipeIdle
  /\ fnIn \in {[styled |-> e] : e \in StyleInputs}
  /\ fnOut = <<>>
  /\ fnPc = "input"

\* the classified primitive of the element gets its styles
ConvertStyles ==
  /\ fnPc = "input"
  /\ "styled" \in DOMAIN fnIn
  /\ fnOut' = convertStyles(fnIn.styled, classifyElement(fnIn.styled))
  /\ fnPc' = "convertStyles"
  /\ UNCHANGED <<fnIn, pipeVars>>

NextStyles == ConvertStyles

SpecStyles == InitStyles /\ [][NextStyles]_vars

Styled == fnPc = "convertStyles"

\* a side with a width above 0 and a style other than none
VisibleSide(border) ==
  border.present /\ border.width > 0 /\ border.style # "none"

AllSidesEqual(border) ==
  \A s, t \in Sides :
    /\ border[s].width = border[t].width
    /\ border[s].style = border[t].style
    /\ border[s].color = border[t].color

\* the sides the per-side list is to hold, in the order top, right, bottom,
\* left
ListedSides(border) ==
  SelectSeq(SideOrder,
            LAMBDA s : VisibleSide(border[s]) /\ convertColor(border[s].color) # "")

OnlyBottomRed(border) ==
  /\ border["bottom"] = Border(4, "solid", "red")
  /\ \A s \in Sides \ {"bottom"} : border[s] = Border(0, "none", "rgb(0, 0, 0)")

\* C17: the primitive has an outline exactly when all four sides have a
\* visible border of equal width, style and color; otherwise its per-side
\* list holds exactly the sides with a width above 0, a style other than
\* none and a convertible color, in the order top, right, bottom, left; the
\* two are never both set; border-bottom: 4px solid red alone gives the list
\* with the single entry bottom and no outline
C17_BorderUniformity ==
  Styled =>
    LET border == fnIn.styled.styles.border
        uniform == (\A s \in Sides : VisibleSide(border[s])) /\ AllSidesEqual(border)
        sides == [i \in 1..Len(fnOut.styles.singleSidedBorders) |->
                    fnOut.styles.singleSidedBorders[i].side]
    IN  /\ (fnOut.styles.line # NoLine) <=> uniform
        /\ ~uniform => sides = ListedSides(border)
        /\ ~(fnOut.styles.line # NoLine /\ sides # <<>>)
        /\ OnlyBottomRed(border) => sides = <<"bottom">> /\ fnOut.styles.line = NoLine

\* border-bottom: 4px solid red alone is converted
C17_Witness ==
  /\ Styled
  /\ OnlyBottomRed(fnIn.styled.styles.border)
  /\ Len(fnOut.styles.singleSidedBorders) = 1
  /\ fnOut.styles.singleSidedBorders[1].side = "bottom"

(***************************************************************************)
(* Specification SpecParse: HTMLParser.parse() step by step.  A frame is   *)
(* one active parseElement call that descends into its children (the      *)
(* first frame is parse() itself, about to call parseElement(body)).       *)
(***************************************************************************)
Css(position, display) == [NoCss EXCEPT !.position = position, !.display = display]

\* the elements the fragments are made of
NodeKinds ==
  { Dom("div", "", [NoCss EXCEPT !.width = Px(100), !.height = Px(40),
                                 !.marginTop = Px(5), !.marginBottom = Px(7),
                                 !.marginLeft = Px(3), !.paddingTop = Px(10),
                                 !.paddingLeft = Px(20)], <<>>),
    Dom("span", "", [NoCss EXCEPT !.width = Px(50), !.height = Px(20),
                                  !.marginLeft = Px(2), !.marginRight = Px(4)], <<>>),
    Dom("div", "", [Css("relative", "") EXCEPT !.left = Px(10), !.top = Px(20),
                                               !.paddingTop = Px(9),
                                               !.paddingLeft = Px(7),
                                               !.marginTop = Px(1)], <<>>),
    Dom("div", "", [Css("sticky", "inline-block") EXCEPT !.right = Px(3),
                                                         !.bottom = Px(4),
                                                         !.width = Px(60)], <<>>),
    Dom("div", "", [Css("absolute", "") EXCEPT !.left = Px(30), !.top = Px(40)], <<>>),
    Dom("div", "", [Css("fixed", "") EXCEPT !.right = Px(5), !.top = Px(6)], <<>>),
    Dom("script", "", NoCss, <<>>) }

RECURSIVE BuildDom(_, _, _, _)
RECURSIVE BuildDomKids(_, _, _, _, _)
BuildDom(i, n, par, node) ==
  [node[i] EXCEPT !.children = BuildDomKids(i, i + 1, n, par, node)]

BuildDomKids(i, j, n, par, node) ==
  IF j > n THEN <<>>
  ELSE (IF par[j] = i THEN <<BuildDom(j, n, par, node)>> ELSE <<>>)
         \o BuildDomKids(i, j + 1, n, par, node)

\* the assignments of kinds to the nodes: a script has no element children
KindsFor(n, par) ==
  {node \in [1..n -> NodeKinds] :
     \A j \in 1..n : par[j] # 0 => node[par[j]].tag # "script"}

\* the fragments of up to MaxNodes elements
Fragments ==
  {<<>>} \cup
  UNION {UNION {{BuildDomKids(0, 1, n, par, node) : node \in KindsFor(n, par)} :
                par \in PreorderParents(n)} :
         n \in 1..MaxNodes}

InitParse ==
  /\ PipeIdle
  /\ fnIn \in {[fragment |-> f] : f \in Fragments}
  /\ fnOut = <<>>
  /\ fnPc = "input"

\* parse(): the root context; parseElement(body) is the call to come
ParseBegin ==
  /\ fnPc = "input"
  /\ "fragment" \in DOMAIN fnIn
  /\ fnOut' = [layoutStack |-> <<RootContext>>,
               frames |-> <<[todo |-> <<BodyOf(fnIn.fragment)>>, depth |-> 0,
                             pushed |-> RootContext,
                             element |-> Dom("#document", "", NoCss, <<>>),
                             position |-> Box(0, 0, 0, 0)]>>,
               elementIdCounter |-> 0,
               placed |-> <<>>,
               last |-> [kind |-> "begin"]]
  /\ fnPc' = "parse"
  /\ UNCHANGED <<fnIn, pipeVars>>

\* parseElement up to its first recursive call, or to its return when the
\* element has no children
EnterElement ==
  /\ fnPc = "parse"
  /\ fnOut.frames[Len(fnOut.frames)].todo # <<>>
  /\ LET caller == fnOut.frames[Len(fnOut.frames)]
         element == Head(caller.todo)
         at == calculatePosition(element, fnOut.layoutStack)
         positionValue == IF element.computed.position # ""
                            THEN element.computed.position ELSE "static"
         context == [originX |-> at.position.x
                                   + parseDimension(element.computed.paddingLeft),
                     originY |-> at.position.y
                                   + parseDimension(element.computed.paddingTop),
                     cumulativeY |-> 0, cumulativeX |-> 0,
                     isPositioned |-> positionValue # "static"]
         returned == [fnOut.frames EXCEPT ![Len(fnOut.frames)].todo = Tail(@)]
         entered == [kind |-> "enter", element |-> element,
                     before |-> fnOut.layoutStack, after |-> at.layoutStack,
                     position |-> at.position, callerPushed |-> caller.pushed,
                     ancestors |-> fnOut.frames]
     IN  fnOut' =
           IF element.children # <<>>
             THEN [fnOut EXCEPT
                     !.layoutStack = pushContext(at.layoutStack, context),
                     !.frames = Append(returned,
                                  [todo |-> SelectSeq(element.children,
                                                      shouldIncludeElement),
                                   depth |-> Len(fnOut.layoutStack),
                                   pushed |-> context,
                                   element |-> element,
                                   position |-> at.position]),
                     !.elementIdCounter = @ + 1,
                     !.placed = Append(@, at.position),
                     !.last = entered]
             ELSE [fnOut EXCEPT
                     !.layoutStack = at.layoutStack,
                     !.frames = returned,
                     !.elementIdCounter = @ + 1,
                     !.placed = Append(@, at.position),
                     !.last = [entered EXCEPT !.kind = "leaf"]]
  /\ UNCHANGED <<fnIn, fnPc, pipeVars>>

\* the children are parsed: popContext() and return
ReturnElement ==
  /\ fnPc = "parse"
  /\ Len(fnOut.frames) > 1
  /\ fnOut.frames[Len(fnOut.frames)].todo = <<>>
  /\ fnOut' = [fnOut EXCEPT
                 !.layoutStack = popContext(@),
                 !.frames = SubSeq(@, 1, Len(@) - 1),
                 !.last = [kind |-> "return",
                           entryDepth |-> fnOut.frames[Len(fnOut.frames)].depth,
                           exitDepth |-> Len(popContext(fnOut.layoutStack))]]
  /\ UNCHANGED <<fnIn, fnPc, pipeVars>>

\* parseElement(body) has returned: parse() returns its children
ParseEnd ==
  /\ fnPc = "parse"
  /\ Len(fnOut.frames) = 1
  /\ fnOut.frames[1].todo = <<>>
  /\ fnOut' = [fnOut EXCEPT !.last = [kind |-> "end"]]
  /\ fnPc' = "parsed"
  /\ UNCHANGED <<fnIn, pipeVars>>

NextParse == ParseBegin \/ EnterElement \/ ReturnElement \/ ParseEnd

SpecParse == InitParse /\ [][NextParse]_vars

Parsing == fnPc \in {"parse", "parsed"}

\* the step-by-step run places the elements where parseElement does
ParseAgrees ==
  fnPc = "parsed"
    => fnOut.placed
         = <<parseElement(BodyOf(fnIn.fragment), <<RootContext>>, 0).el.position>>
             \o [i \in 1..Len(Flatten(HTMLParserParse(fnIn.fragment))) |->
                   Flatten(HTMLParserParse(fnIn.fragment))[i].position]

\* C19: during parse() the layout stack is the root context followed by the
\* context of each container being descended into, in order; so it is never
\* empty, its first entry is never removed, a parseElement call returns with
\* the stack as deep as it found it, an element is positioned with the
\* context its parent pushed on top, and after parse() only the root
\* context is left
C19_StackDiscipline ==
  Parsing =>
    /\ Len(fnOut.layoutStack) >= 1
    /\ fnOut.layoutStack[1].originX = 0 /\ fnOut.layoutStack[1].originY = 0
    /\ fnOut.layoutStack[1].isPositioned
    /\ Len(fnOut.layoutStack) = Len(fnOut.frames)
    /\ \A k \in 2..Len(fnOut.frames) :
         /\ fnOut.layoutStack[k].originX = fnOut.frames[k].pushed.originX
         /\ fnOut.layoutStack[k].originY = fnOut.frames[k].pushed.originY
         /\ fnOut.layoutStack[k].isPositioned = fnOut.frames[k].pushed.isPositioned
    /\ fnOut.last.kind = "return" => fnOut.last.exitDepth = fnOut.last.entryDepth
    /\ fnOut.last.kind = "leaf" => Len(fnOut.last.after) = Len(fnOut.last.before)
    /\ fnOut.last.kind \in {"enter", "leaf"} =>
         LET context == getCurrentContext(fnOut.last.before)
         IN  /\ context.originX = fnOut.last.callerPushed.originX
             /\ context.originY = fnOut.last.callerPushed.originY
             /\ context.isPositioned = fnOut.last.callerPushed.isPositioned
    /\ fnPc = "parsed" => Len(fnOut.layoutStack) = 1

\* a container in a container in the body has been parsed and returned from
C19_Witness ==
  /\ fnPc = "parse"
  /\ fnOut.last.kind = "return"
  /\ fnOut.last.entryDepth = 3
  /\ Len(fnOut.layoutStack) = 3

\* the flow offset of a relative or sticky element: left or top added,
\* otherwise right or bottom subtracted
RelativeShift(element, near, far) ==
  IF element.computed.position \notin {"relative", "sticky"} THEN 0
  ELSE IF element.inline[near].unit # "" \/ element.computed[near].unit # ""
    THEN (IF parseDimension(element.inline[near]) # 0
            THEN parseDimension(element.inline[near])
            ELSE parseDimension(element.computed[near]))
  ELSE IF element.inline[far].unit # "" \/ element.computed[far].unit # ""
    THEN 0 - (IF parseDimension(element.inline[far]) # 0
                THEN parseDimension(element.inline[far])
                ELSE parseDimension(element.computed[far]))
  ELSE 0

\* the cursor transition and the placement of the element just positioned,
\* the placement moved by (dx, dy) from the flow position
FlowTransition(dx, dy) ==
  LET element == fnOut.last.element
      style == element.computed
      before == getCurrentContext(fnOut.last.before)
      after == getCurrentContext(fnOut.last.after)
      position == fnOut.last.position
      marginTop == parseDimension(style.marginTop)
      marginBottom == parseDimension(style.marginBottom)
      marginLeft == parseDimension(style.marginLeft)
      marginRight == parseDimension(style.marginRight)
  IN  IF style.position \in {"absolute", "fixed"}
        THEN fnOut.last.after = fnOut.last.before
      ELSE IF style.display \in {"inline", "inline-block"}
        THEN /\ position.x = before.originX + before.cumulativeX + marginLeft + dx
             /\ position.y = before.originY + before.cumulativeY + dy
             /\ after.cumulativeX
                  = before.cumulativeX + marginLeft + position.width + marginRight
             /\ after.cumulativeY = before.cumulativeY
      ELSE /\ position.x = before.originX + marginLeft + dx
           /\ position.y = before.originY + before.cumulativeY + marginTop + dy
           /\ after.cumulativeY
                = before.cumulativeY + marginTop + position.height + marginBottom
           /\ after.cumulativeX = 0

Positioned == fnPc = "parse" /\ fnOut.last.kind \in {"enter", "leaf"}

\* C20 as stated: a static, relative or sticky element that is inline or
\* inline-block is placed at (originX + cumulativeX + marginLeft, originY +
\* cumulativeY) and advances cumulativeX by marginLeft + width + marginRight,
\* cumulativeY unchanged; any other such element is placed at (originX +
\* marginLeft, originY + cumulativeY + marginTop), advances cumulativeY by
\* marginTop + height + marginBottom and resets cumulativeX to 0; absolute
\* and fixed elements leave the cursors of every context unchanged
C20_FlowCursor ==
  Positioned => FlowTransition(0, 0)

\* C20 amended: the same, with the placement of a relative or sticky element
\* moved from the flow position by its left (else minus right) and top (else
\* minus bottom) offset
C20_FlowCursorWithOffsets ==
  Positioned =>
    FlowTransition(RelativeShift(fnOut.last.element, "left", "right"),
                   RelativeShift(fnOut.last.element, "top", "bottom"))

\* a block after an inline sibling: cumulativeX goes back to 0
C20_Witness ==
  /\ Positioned
  /\ fnOut.last.element.computed.position = "relative"
  /\ getCurrentContext(fnOut.last.before).cumulativeX > 0
  /\ getCurrentContext(fnOut.last.after).cumulativeX = 0
  /\ getCurrentContext(fnOut.last.after).cumulativeY
       > getCurrentContext(fnOut.last.before).cumulativeY

\* the content-box origin of the nearest ancestor whose own position is not
\* static, the document origin when there is none; frames[1] is the document
RECURSIVE AnchorOf(_, _)
AnchorOf(frames, k) ==
  IF k <= 1 THEN [x |-> 0, y |-> 0]
  ELSE IF frames[k].element.computed.position \notin {"", "static"}
    THEN [x |-> frames[k].position.x
                  + parseDimension(frames[k].element.computed.paddingLeft),
          y |-> frames[k].position.y
                  + parseDimension(frames[k].element.computed.paddingTop)]
  ELSE AnchorOf(frames, k - 1)

AbsolutePlaced ==
  /\ Positioned
  /\ fnOut.last.element.computed.position = "absolute"
  /\ fnOut.last.element.computed.left.unit = "px"
  /\ fnOut.last.element.computed.top.unit = "px"

\* C21: an absolute element with left and top is placed at the content-box
\* origin (position + padding) of its nearest ancestor with a non-static
\* position, the document origin (0, 0) when there is none, plus (left, top),
\* whatever the flow cursors and the static ancestors in between are; the
\* lookup returns a context flagged as a positioning context
C21_AbsoluteAnchor ==
  AbsolutePlaced =>
    LET anchor == AnchorOf(fnOut.last.ancestors, Len(fnOut.last.ancestors))
    IN  /\ fnOut.last.position.x
             = anchor.x + fnOut.last.element.computed.left.num
        /\ fnOut.last.position.y
             = anchor.y + fnOut.last.element.computed.top.num
        /\ getNearestPositioningContext(fnOut.last.before).isPositioned
        /\ fnOut.last.after = fnOut.last.before

\* an absolute element in a static container in a relative container, after
\* the flow cursor of the body has moved
C21_Witness ==
  /\ AbsolutePlaced
  /\ Len(fnOut.last.ancestors) = 4
  /\ fnOut.last.ancestors[3].element.computed.position = "relative"
  /\ fnOut.last.ancestors[4].element.computed.position = ""
  /\ fnOut.last.position.x = 10 + 7 + 30
  /\ fnOut.last.position.y = 1 + 20 + 9 + 40

FixedPlaced ==
  /\ Positioned
  /\ fnOut.last.element.computed.position = "fixed"

\* C22: the box of a fixed element does not depend on any ancestor context;
\* left and top are measured from the document origin, and with right or
\* bottom instead x = slideWidth - width - right and y = slideHeight -
\* height - bottom for the full slide, 13.333in x 7.5in by default
C22_FixedAgainstSlide ==
  FixedPlaced =>
    LET element == fnOut.last.element
        position == fnOut.last.position
    IN  /\ position = calculatePosition(element, <<RootContext>>).position
        /\ element.computed.left.unit = "px"
             => position.x = element.computed.left.num
        /\ element.computed.top.unit = "px"
             => position.y = element.computed.top.num
        /\ (element.computed.left.unit = "" /\ element.computed.right.unit = "px")
             => 1000 * (position.x + position.width + element.computed.right.num)
                  = PxPerInch * DefaultSlideWidth
        /\ (element.computed.top.unit = "" /\ element.computed.bottom.unit = "px")
             => 1000 * (position.y + position.height + element.computed.bottom.num)
                  = PxPerInch * DefaultSlideHeight

(***************************************************************************)
(* Specification SpecDecorative: shouldFilterElement applied to one        *)
(* element, against the 13.333in x 7.5in slide filterDecorativeElements    *)
(* passes.                                                                 *)
(***************************************************************************)
\* widths around 0.8, 1.2, 1.5 and 2 times 1280px; heights likewise for 720px
CandidateWidths == {100, 1100, 1600, 2000, 2600}

CandidateHeights == {50, 620, 900, 1200, 1500}

CandidateRadii == {0, 150, 600}

CandidateFills == {"", "rgb(245, 245, 245)", "red"}

FilterCandidates ==
  { ParsedEl(tag, "", Box(0, 0, w, h),
             [NoStyles EXCEPT !.borderRadius = [num |-> r, unit |-> "px"],
                              !.backgroundColor = fill]) :
      tag \in {"div", "body", "html"}, w \in CandidateWidths,
      h \in CandidateHeights, r \in CandidateRadii, fill \in CandidateFills }

InitDecorative ==
  /\ PipeIdle
  /\ fnIn \in {[candidate |-> e] : e \in FilterCandidates}
  /\ fnOut = <<>>
  /\ fnPc = "input"

ShouldFilterElement ==
  /\ fnPc = "input"
  /\ "candidate" \in DOMAIN fnIn
  /\ fnOut' = shouldFilterElement(fnIn.candidate, DefaultSlideWidth,
                                  DefaultSlideHeight)
  /\ fnPc' = "shouldFilterElement"
  /\ UNCHANGED <<fnIn, pipeVars>>

NextDecorative == ShouldFilterElement

SpecDecorative == InitDecorative /\ [][NextDecorative]_vars

\* C23: an element is removed exactly when it is an html or body wrapper, or
\* its box is more than 1.5 times the slide in a dimension, or 2 times or
\* more, or it has a border-radius above 500px together with a box covering
\* nearly the slide and a light-gray fill; every other element is kept
C23_FilterPolicy ==
  fnPc = "shouldFilterElement" =>
    LET el == fnIn.candidate
        w == el.position.width
        h == el.position.height
        wrapper == el.tagName \in {"body", "html"}
        muchLarger == \/ ExceedsFactor(w, DefaultSlideWidth, 15, 10)
                      \/ ExceedsFactor(h, DefaultSlideHeight, 15, 10)
        twice == \/ 1000 * w >= 2 * PxPerInch * DefaultSlideWidth
                 \/ 1000 * h >= 2 * PxPerInch * DefaultSlideHeight
        nearCover == \/ ExceedsFactor(w, DefaultSlideWidth, 8, 10)
                     \/ ExceedsFactor(h, DefaultSlideHeight, 8, 10)
        backdrop == /\ el.styles.borderRadius.num > 500
                    /\ nearCover
                    /\ el.styles.backgroundColor \in GrayishColors
    IN  fnOut.filter <=> (wrapper \/ muchLarger \/ twice \/ backdrop)

\* the sides that are solid, wider than 0 and not transparent
ColoredSides(e) ==
  {side \in Sides :
     /\ e.styles.border[side].present
     /\ e.styles.border[side].width > 0
     /\ e.styles.border[side].style = "solid"
     /\ e.styles.border[side].color \notin {"transparent", "rgba(0, 0, 0, 0)"}}

NoEarlierRule(e) ==
  \A type \in {"table", "text", "line", "ellipse", "roundRect"} :
    ~RuleMatches(type, e)

\* C24: when no earlier rule matches, an element is a triangle if and only if
\* its width and height are both below 0.05in, it has no background fill and
\* exactly one of its four sides is solid, wider than 0 and not transparent
C24_TriangleRule ==
  (Classified /\ NoEarlierRule(fnIn.element))
    => (fnOut.type = "triangle"
          <=> /\ 100 * fnIn.element.position.width < 5 * PxPerInch
              /\ 100 * fnIn.element.position.height < 5 * PxPerInch
              /\ fnIn.element.styles.backgroundColor
                   \in {"", "transparent", "rgba(0, 0, 0, 0)"}
              /\ Cardinality(ColoredSides(fnIn.element)) = 1)

(***************************************************************************)
(* Specification SpecGradient: StyleConverter.extractGradientAngle applied *)
(* to linear gradients.  A gradient string is the sequence of its words;   *)
(* includes(...) is the search for a run of words.                         *)
(***************************************************************************)
\* gradient.includes(pattern), pattern a run of words
Includes(words, pattern) ==
  \E i \in 1..(Len(words) - Len(pattern) + 1) :
    SubSeq(words, i, i + Len(pattern) - 1) = pattern

\* the explicit angles the gradients use: the word and parseInt of its digits
DegWords ==
  { <<"0deg", 0>>, <<"30deg", 30>>, <<"45deg", 45>>, <<"90deg", 90>>,
    <<"135deg", 135>>, <<"180deg", 180>>, <<"225deg", 225>>,
    <<"270deg", 270>>, <<"315deg", 315>>, <<"360deg", 360>> }

\* the eight named directions with the angle of each
NamedDirections ==
  { <<<<"to", "top">>, 0>>, <<<<"to", "top", "right">>, 45>>,
    <<<<"to", "right">>, 90>>, <<<<"to", "bottom", "right">>, 135>>,
    <<<<"to", "bottom">>, 180>>, <<<<"to", "bottom", "left">>, 225>>,
    <<<<"to", "left">>, 270>>, <<<<"to", "top", "left">>, 315>> }

GradientStops ==
  { <<"red", ",", "blue">>, <<"#ff0000", "0%", ",", "#0000ff", "100%">>,
    <<"rgb(255, 0, 0)", ",", "white">>, <<"white", ",", "black", ",", "red">> }

\* linear-gradient([angle | direction ,] stops)
Gradients ==
  { <<"linear-gradient(">> \o lead \o stops \o <<")">> :
      lead \in {<<>>} \cup {<<d[1], ",">> : d \in DegWords}
                 \cup {d[1] \o <<",">> : d \in NamedDirections},
      stops \in GradientStops }

\* gradient.match(/(\d+)deg/): the first word of digits followed by deg,
\* as <<parseInt>>, or <<>> when there is none
DegMatch(words) ==
  LET hits == SelectSeq(words, LAMBDA w : \E d \in DegWords : d[1] = w)
  IN  IF hits = <<>> THEN <<>>
      ELSE <<(CHOOSE d \in DegWords : d[1] = hits[1])[2]>>

\* StyleConverter.extractGradientAngle
extractGradientAngle(gradient) ==
  IF DegMatch(gradient) # <<>> THEN DegMatch(gradient)[1]
  ELSE IF Includes(gradient, <<"to", "right">>) THEN 90
  ELSE IF Includes(gradient, <<"to", "left">>) THEN 270
  ELSE IF Includes(gradient, <<"to", "bottom">>) THEN 180
  ELSE IF Includes(gradient, <<"to", "top">>) THEN 0
  ELSE IF Includes(gradient, <<"to", "bottom", "right">>) THEN 135
  ELSE IF Includes(gradient, <<"to", "bottom", "left">>) THEN 225
  ELSE IF Includes(gradient, <<"to", "top", "right">>) THEN 45
  ELSE IF Includes(gradient, <<"to", "top", "left">>) THEN 315
  ELSE 0

InitGradient ==
  /\ PipeIdle
  /\ fnIn \in {[gradient |-> g] : g \in Gradients}
  /\ fnOut = <<>>
  /\ fnPc = "input"

ExtractGradientAngle ==
  /\ fnPc = "input"
  /\ "gradient" \in DOMAIN fnIn
  /\ fnOut' = [angle |-> extractGradientAngle(fnIn.gradient)]
  /\ fnPc' = "extractGradientAngle"
  /\ UNCHANGED <<fnIn, pipeVars>>

NextGradient == ExtractGradientAngle

SpecGradient == InitGradient /\ [][NextGradient]_vars

\* the words between "linear-gradient(" and the first comma, when they are
\* an angle or a direction
LeadOf(gradient) ==
  IF gradient[2] = "to" \/ \E d \in DegWords : d[1] = gradient[2]
    THEN SubSeq(gradient, 2,
                (CHOOSE i \in 2..Len(gradient) :
                   gradient[i] = "," /\ \A j \in 2..(i - 1) : gradient[j] # ",") - 1)
    ELSE <<>>

\* C27: without an explicit degree value each of the eight named directions
\* gives its own angle (to top 0, to top right 45, to right 90, to bottom
\* right 135, to bottom 180, to bottom left 225, to left 270, to top left
\* 315); an explicit Ndeg gives N; with neither the angle is 0
C27_GradientAngle ==
  fnPc = "extractGradientAngle" =>
    LET lead == LeadOf(fnIn.gradient)
    IN  /\ \A d \in NamedDirections : lead = d[1] => fnOut.angle = d[2]
        /\ \A d \in DegWords : lead = <<d[1]>> => fnOut.angle = d[2]
        /\ lead = <<>> => fnOut.angle = 0

\* C28: a background rgba(r, g, b, a) with a < 1 gives the fill as the hex
\* triplet of (r, g, b) and fillOpacity = a
C28_AlphaCarried ==
  (Styled /\ fnIn.styled.styles.backgroundColor = "rgba(255, 0, 0, 0.5)")
    => /\ fnOut.styles.fill = "FF0000"
       /\ fnOut.styles.fillOpacity = 50

(***************************************************************************)
(* Specification SpecPairing: Steps 2 and 3 of convert() (classify,        *)
(* filterSkipElements, convertAllStyles) on parsed forests whose elements  *)
(* differ in their styles.                                                 *)
(***************************************************************************)
PairKinds ==
  { ParsedEl("div", "", Box(0, 0, 384, 192),
             [NoStyles EXCEPT !.fontSize = 16, !.backgroundColor = "red"]),
    ParsedEl("p", "hi", Box(0, 0, 480, 24),
             [NoStyles EXCEPT !.fontSize = 6,
                              !.border["top"] = SolidBorder(2, "blue")]),
    ParsedEl("table", "", Box(0, 0, 480, 96),
             [NoStyles EXCEPT !.fontSize = 20]) }

InitPairing ==
  /\ PipeIdle
  /\ fnIn \in {[parsed |-> f] : f \in ForestsOf(PairKinds)}
  /\ fnOut = <<>>
  /\ fnPc = "input"

ConvertAllStyles ==
  /\ fnPc = "input"
  /\ "parsed" \in DOMAIN fnIn
  /\ fnOut' = convertAllStyles(fnIn.parsed,
                               filterSkipElements(classify(fnIn.parsed)))
  /\ fnPc' = "convertAllStyles"
  /\ UNCHANGED <<fnIn, pipeVars>>

NextPairing == ConvertAllStyles

SpecPairing == InitPairing /\ [][NextPairing]_vars

RECURSIVE SameShape(_, _)
\* the primitives mirror the parsed elements id by id, tables being leaves
SameShape(parsedElements, pptxElements) ==
  /\ Len(pptxElements) = Len(parsedElements)
  /\ \A i \in 1..Len(parsedElements) :
       /\ pptxElements[i].id = parsedElements[i].id
       /\ IF pptxElements[i].type = "table"
            THEN pptxElements[i].children = <<>>
            ELSE SameShape(parsedElements[i].children, pptxElements[i].children)

\* the parsed element a primitive came from
SourceOf(pptx) ==
  CHOOSE e \in SeqRange(Flatten(fnIn.parsed)) : e.id = pptx.id

\* C29: the primitive tree has the shape of the parsed tree, tables having
\* no children, and every primitive carries the styles converted from the
\* parsed element of its own id
C29_StylesPairedById ==
  fnPc = "convertAllStyles"
    => /\ SameShape(fnIn.parsed, fnOut)
       /\ \A pptx \in SeqRange(Flatten(fnOut)) :
            pptx.styles = convertStyles(SourceOf(pptx), pptx).styles

\* a table nested in a div: its parsed children are dropped, and the div
\* and the table carry different styles
C29_Witness ==
  /\ fnPc = "convertAllStyles"
  /\ Len(fnOut) = 1
  /\ fnOut[1].type = "rect"
  /\ fnOut[1].styles.fill = "FF0000"
  /\ fnOut[1].children # <<>>
  /\ fnOut[1].children[1].type = "table"
  /\ fnOut[1].children[1].styles.fontSize = 15
  /\ fnIn.parsed[1].children[1].children # <<>>

(***************************************************************************)
(* Specification SpecFallback: the HTMLParser branch of convert() up to    *)
(* Step 3 on one div that declares a border on every side.                 *)
(***************************************************************************)
BorderedSizes == {<<2, 2>>, <<100, 50>>}

\* the computed style of a div of the given size with the given borders
BorderedCss(size, border) ==
  [k \in DOMAIN NoCss \cup {"border"} |->
     IF k = "border" THEN border
     ELSE IF k = "width" THEN Px(size[1])
     ELSE IF k = "height" THEN Px(size[2])
     ELSE NoCss[k]]

BorderedFragments ==
  { <<Dom("div", "", BorderedCss(size, border), <<>>)>> :
      size \in BorderedSizes, border \in [Sides -> BorderKinds] }

InitFallback ==
  /\ PipeIdle
  /\ fnIn \in {[html |-> f] : f \in BorderedFragments}
  /\ fnOut = <<>>
  /\ fnPc = "input"

\* parser.parse(html), classify, filterSkipElements, convertAllStyles
ConvertFallback ==
  /\ fnPc = "input"
  /\ "html" \in DOMAIN fnIn
  /\ fnOut' = [parsedElements |-> HTMLParserParse(fnIn.html),
               classifiedElements |->
                 convertAllStyles(
                   HTMLParserParse(fnIn.html),
                   filterSkipElements(classify(HTMLParserParse(fnIn.html))))]
  /\ fnPc' = "fallback"
  /\ UNCHANGED <<fnIn, pipeVars>>

NextFallback == ConvertFallback

SpecFallback == InitFallback /\ [][NextFallback]_vars

\* C30: from the fallback parser no primitive is a triangle, has an outline
\* or has a per-side border list, whatever borders the fragment declares
C30_FallbackHasNoBorders ==
  fnPc = "fallback"
    => \A pptx \in SeqRange(Flatten(fnOut.classifiedElements)) :
         /\ pptx.type # "triangle"
         /\ pptx.styles.line = NoLine
         /\ pptx.styles.singleSidedBorders = <<>>

\* the border trick on a 2px box: only the bottom side is colored
C30_Witness ==
  /\ fnPc = "fallback"
  /\ fnIn.html[1].computed.border =
       [s \in Sides |-> IF s = "bottom" THEN Border(4, "solid", "red")
                        ELSE Border(4, "solid", "rgba(0, 0, 0, 0)")]
  /\ Len(fnOut.classifiedElements) = 1
  /\ fnOut.classifiedElements[1].position.width = 2
  /\ fnOut.classifiedElements[1].position.height = 2
  /\ fnOut.classifiedElements[1].type = "rect"

====
